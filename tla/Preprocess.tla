----------------------------- MODULE Preprocess -----------------------------
(***************************************************************************)
(* preprocess_dependencies of src/src/pevm.rs.                             *)
(***************************************************************************)
EXTENDS Evm, FiniteSetsExt

\* last_tx_idx_by_sender and last_tx_idx_by_recipient when the loop reaches t.
SentBefore(t, a) == {i \in 0 .. (t - 1) : From(i) = a}
PaidBefore(t, a) ==
    {i \in 0 .. (t - 1) : To(i) = a /\ Transactions[i].value > 0}

Last(indexes) == IF indexes = {} THEN {} ELSE {Max(indexes)}

\* Mutant: the sender's own transactions are not looked at.
RegisteredRecipients(t) == Last(PaidBefore(t, From(t)))

\* What register_dependency is called with; {} when it is not.
RegisteredDependencies(t) ==
    IF Beneficiary \in {From(t), To(t)}
    THEN LET sent == SentBefore(t, Beneficiary)
         IN  (IF sent = {} THEN 0 ELSE Max(sent)) .. (t - 1)
    ELSE Last(SentBefore(t, From(t))) \cup Last(PaidBefore(t, From(t)))

PreprocessedDependencies == [t \in Txs |-> RegisteredDependencies(t)]

DependentTxs == {t \in Txs : PreprocessedDependencies[t] # {}}

\* More than 85 percent of the block depends on another transaction: the loop
\* gives up, and the number only grows.
FallsBack == 100 * Cardinality(DependentTxs) > 85 * BlockSize

MaxConcurrencyLevel ==
    Max({2, (BlockSize - Cardinality(DependentTxs)) \div 2})

=============================================================================
