------------------------------ MODULE Results ------------------------------
(***************************************************************************)
(* The results of the block (the end of execute_revm, src/src/pevm.rs),    *)
(* from what the last execution of each transaction left in the memory and *)
(* in execution_results.                                                   *)
(***************************************************************************)
EXTENDS Vm

VARIABLE execution_results   \* what each transaction last ended with: state, gas

\* Balances updated lazily are evaluated over the block, for the raw-transfer
\* recipients and the beneficiary.
LazyAddresses == {To(t) : t \in {u \in Txs : IsMaybeLazy(u)}} \cup {Beneficiary}

\* current_account after the entry of transaction t: its code stays that of
\* the storage.
Evaluated(l, t) ==
    LET full  == {i \in 0 .. t : data[l][i].kind = "basic"}
        lazy  == {i \in 0 .. t : /\ data[l][i].kind = "lazy"
                                 /\ \A j \in full : j < i}
        start == IF full = {} THEN ChainState[l] ELSE data[l][Max(full)].value
    IN  [Credit(start, LazySum(l, lazy)) EXCEPT !.code = ChainState[l].code]

\* An account that is empty is removed: from_revm reports it so since EIP-161,
\* the evaluation always.
Removed == [kind |-> "removed"]
IsEmpty(l, value) ==
    l \in Accounts /\ value = [balance |-> 0, nonce |-> 0, code |-> FALSE]
Reported(l, value) ==
    IF IsEmpty(l, value) /\ IsEnabledIn("SPURIOUS_DRAGON") THEN Removed ELSE value

\* The state that the result of transaction t reports.  An explicit write
\* keeps its code.
FinalResult(t) ==
    LET evaluated == {l \in LazyAddresses : data[l][t] # Absent}
        explicit  == execution_results[t].state
    IN  [l \in evaluated \cup DOMAIN explicit |->
            IF l \notin evaluated THEN Reported(l, explicit[l])
            ELSE IF IsEmpty(l, Evaluated(l, t)) THEN Removed
            ELSE IF l \in DOMAIN explicit
            THEN [Evaluated(l, t) EXCEPT !.code = explicit[l].code]
            ELSE Evaluated(l, t)]

\* cumulative_gas_used of transaction t.
FinalGas(t) == Total([u \in Txs |-> execution_results[u].gas])[t + 1]

\* What the results up to t say of location l.
StateAfter(l, t) ==
    LET reports == {u \in 0 .. t : l \in DOMAIN FinalResult(u)}
    IN  IF reports = {} THEN Reported(l, ChainState[l])
        ELSE FinalResult(Max(reports))[l]

\* The block keeps clear of what pevm does otherwise than the sequential
\* execution whatever the interleaving: an empty account is removed (since
\* Spurious Dragon), a gas price covers the base fee, which REVM checks, the code
\* of an account that is updated lazily stays that of the storage, and a
\* transaction that destroys a contract leaves the slots as they were.
Regular ==
    /\ IsEnabledIn("SPURIOUS_DRAGON")
    /\ IsEnabledIn("LONDON") => \A t \in Txs : EffectiveGasPrice(t) >= BaseFee
    /\ \A n \in 0 .. BlockSize, a \in LazyAddresses :
           SequentialState(n)[a].code = IsContract(a)
    /\ \A t \in Txs :
           LET before == SequentialState(t)
               after  == RunFrom(t, before).view
           IN  (\E a \in Accounts : before[a].code /\ ~after[a].code) =>
                   \A s \in Slots : after[s] = before[s]

\* Each transaction has a sender of its own, which none of them creates or
\* destroys: until the transaction is executed, its sender has the nonce of the
\* storage.
SendersApart ==
    \A t, u \in Txs :
        /\ t # u => From(t) # From(u)
        /\ To(u) = NoAddress => Transactions[u].creates # From(t)
        /\ To(u) = From(t) => \A k \in 1 .. Len(Accesses(u)) :
                                 Accesses(u)[k].op # "destroy_if_zero"

FirstNonce(t, account) ==
    "nonce" \in DOMAIN account /\ account.nonce = ChainState[From(t)].nonce

-----------------------------------------------------------------------------
(***************************************************************************)
(* What a transaction has read and written, as the memory holds it.        *)
(***************************************************************************)

\* The versions that were read are in memory.
Present(l, origins) ==
    \A v \in origins.mv : IsData(data[l][v[1]]) /\ data[l][v[1]].inc = v[2]

Indexes(origins) == {v[1] : v \in origins.mv}

\* A full value, or the storage, and lazy additions above it.
Summable(l, origins) ==
    LET bottom == IF origins.storage THEN {} ELSE {Min(Indexes(origins))}
    IN  /\ bottom \subseteq Indexes(origins)
        /\ \A i \in Indexes(origins) : data[l][i].kind = "lazy" <=> i \notin bottom

\* What they make together.
OriginsValue(l, origins) ==
    LET lazy  == {i \in Indexes(origins) : data[l][i].kind = "lazy"}
        value == IF origins.storage THEN ChainState[l]
                 ELSE data[l][Min(Indexes(origins))].value
    IN  IF l \in Slots THEN value ELSE Credit(value, LazySum(l, lazy))

\* A read is of what its versions make, if they are in memory.
ReadMeans(l, origins, value) ==
    Present(l, origins) =>
        Summable(l, origins) /\ value = OriginsValue(l, origins)

\* The entry of t at l is the one of a write set.
HoldsWrite(l, t, inc, writes) ==
    data[l][t] = Data(writes[l].kind, inc, writes[l].value)

=============================================================================
