--------------------------------- MODULE Vm ---------------------------------
(***************************************************************************)
(* How the virtual machine reads the multi-version memory and what it      *)
(* returns (src/src/vm.rs).                                                *)
(***************************************************************************)
EXTENDS MvMemory, FiniteSetsExt, TLC

\* VmDb::basic and VmDb::storage, going down from t: the entry of i is met if
\* no higher one ends the search.  A full value or an ESTIMATE does, and at the
\* beneficiary, which every transaction writes to, so does a missing index.
Ends(l, i) == data[l][i].kind \in {"basic", "storage", "estimate"}
Passed(l, i) == ~Ends(l, i) /\ (l = Beneficiary => data[l][i] # Absent)
Met(l, t) == {i \in Written(l, t) : \A j \in (i + 1) .. (t - 1) : Passed(l, j)}

ReachesStorage(l, t) == \A i \in 0 .. (t - 1) : Passed(l, i)

FoundVersions(l, t) ==
    {Version(l, i) : i \in {j \in Met(l, t) : IsData(data[l][j])}}

FoundOrigins(l, t) == Origins(FoundVersions(l, t), ReachesStorage(l, t))

\* The search is stopped by an ESTIMATE or by a missing index.
Blocked(l, t) ==
    /\ ~ReachesStorage(l, t)
    /\ \A i \in Met(l, t) : data[l][i].kind \notin {"basic", "storage"}

\* The transaction to wait for.
BlockingIdx(l, t) ==
    IF l = Beneficiary THEN t - 1
    ELSE CHOOSE i \in Met(l, t) : data[l][i].kind = "estimate"

\* A location is read again, and what is found (as far as the search went)
\* differs from what was found first.
Inconsistent(l, t, prev) ==
    LET found == FoundVersions(l, t)
    IN  IF Blocked(l, t)
        THEN \/ ~(found \subseteq prev.mv)
             \/ \E v \in prev.mv \ found : \E u \in found : v[1] > u[1]
        ELSE FoundOrigins(l, t) # prev

\* Mutant: only the latest lazy addition counts.
LazySumLatest(l, lazy) == IF lazy = {} THEN 0 ELSE data[l][Max(lazy)].value

LazySum(l, lazy) ==
    Total([i \in Txs |-> IF i \in lazy THEN data[l][i].value ELSE 0])[BlockSize]

\* The value found, with the lazy additions above it.
FoundValue(l, t) ==
    LET met   == Met(l, t)
        lazy  == {i \in met : data[l][i].kind = "lazy"}
        value == IF ReachesStorage(l, t) THEN ChainState[l]
                 ELSE data[l][Min(met)].value
    IN  IF l \in Slots THEN value
        ELSE Credit(value, LazySum(l, lazy))

\* An insertion into a map of locations.
Put(map, l, value) ==
    [k \in DOMAIN map \cup {l} |-> IF k = l THEN value ELSE map[k]]

\* The accesses that reach VmDb: the recipient of a lazy update is a mock.
VmAccesses == [t \in Txs |->
    IF IsMaybeLazy(t) THEN SenderAccess(t) \o Transactions[t].code ELSE Accesses(t)]

-----------------------------------------------------------------------------
(***************************************************************************)
(* Vm::execute once the EVM has returned: values is what the transaction   *)
(* read, view what it leaves.                                              *)
(***************************************************************************)

\* The write set before the rewards; no slots of an account that is destroyed.
SelfDestructed(values, view) ==
    \E l \in DOMAIN view \ Slots : values[l].code /\ ~view[l].code
ChangedLocations(values, view) ==
    {l \in DOMAIN view : /\ view[l] # values[l]
                         /\ l \in Slots => ~SelfDestructed(values, view)}
LazyRecipient(t) == IF IsMaybeLazy(t) THEN {To(t)} ELSE {}

\* apply_rewards: the price of a unit of gas, from London on less the base fee.
RewardPrice(t) ==
    LET tx        == Transactions[t]
        gas_price == IF tx.priority = NoPriority THEN tx.gas_price
                     ELSE Lower(tx.gas_price, tx.priority + BaseFee)
    IN  IF ~IsEnabledIn("LONDON") THEN gas_price
        ELSE IF gas_price > BaseFee THEN gas_price - BaseFee ELSE 0

\* It is added to what is written to the beneficiary, or else lazily.
Reward(t, gas, l) == IF l = Beneficiary THEN RewardPrice(t) * gas ELSE 0

\* Mutant: a slot is written as an account.
KindOfAny(l) == "basic"

KindOf(l) == IF l \in Slots THEN "storage" ELSE "basic"

\* Mutant: a creation rewards nobody.
WriteSetUnrewarded(t, gas, values, view) ==
    LET changed  == ChangedLocations(values, view)
        rewarded == IF To(t) = NoAddress THEN {} ELSE {Beneficiary}
    IN  [l \in changed \cup LazyRecipient(t) \cup rewarded |->
            IF l \in changed
            THEN [kind |-> KindOf(l),
                  value |-> IF l \in rewarded \ Slots
                            THEN Credit(view[l], Reward(t, gas, l)) ELSE view[l]]
            ELSE [kind |-> "lazy",
                  value |-> Reward(t, gas, l) + (IF l \in LazyRecipient(t)
                                            THEN Transactions[t].value ELSE 0)]]

WriteSet(t, gas, values, view) ==
    LET changed == ChangedLocations(values, view)
    IN  [l \in changed \cup LazyRecipient(t) \cup {Beneficiary} |->
            IF l \in changed
            THEN [kind |-> KindOf(l),
                  value |-> IF l \in Slots THEN view[l]
                            ELSE Credit(view[l], Reward(t, gas, l))]
            ELSE [kind |-> "lazy",
                  value |-> Reward(t, gas, l) + (IF l \in LazyRecipient(t)
                                            THEN Transactions[t].value ELSE 0)]]

\* next_validation_idx.
NextValidationIdx(t, reads, writes) ==
    IF t = 0 THEN None
    ELSE IF ~(reads \subseteq {From(t), To(t)}) THEN t
    ELSE IF \/ To(t) = NoAddress
            \/ ~(writes \subseteq {From(t), To(t), Beneficiary}) THEN t + 1
    ELSE None

=============================================================================
