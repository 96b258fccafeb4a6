------------------------------ MODULE MvMemory ------------------------------
(***************************************************************************)
(* The multi-version memory (src/src/mv_memory.rs): for each location, the *)
(* entry each transaction wrote last, and for each transaction the read    *)
(* and write locations it recorded last.  A step is one access under one   *)
(* lock of the DashMap; the Mutex of last_locations, held across several   *)
(* of them, is modelled where the operations are composed (module Pevm).   *)
(***************************************************************************)
EXTENDS Evm

VARIABLES
    data,             \* data[l][t], the entry of transaction t at location l
    last_locations    \* last_locations[t] = [read, write]

memoryVars == <<data, last_locations>>

Absent   == [kind |-> "absent"]
Estimate == [kind |-> "estimate"]

\* MemoryEntry::Data with a Basic, LazyBalanceAddition or Storage value.
Data(kind, tx_incarnation, value) ==
    [kind |-> kind, inc |-> tx_incarnation, value |-> value]

IsData(entry) == entry.kind \notin {"absent", "estimate"}

\* The versions a location was read from, latest first: the order is that of
\* the indexes, so a set of <<tx_idx, tx_incarnation>> and a flag for
\* ReadOrigin::Storage at the end stand for the list.
Origins(versions, storage) == [mv |-> versions, storage |-> storage]

\* Transactions below t with an entry at l.
Written(l, t) == {i \in 0 .. (t - 1) : data[l][i] # Absent}

Version(l, i) == <<i, data[l][i].inc>>

-----------------------------------------------------------------------------
\* MvMemory::new: every transaction is estimated to write to the beneficiary.
MemoryInit ==
    /\ data = [l \in Locs |-> [t \in Txs |->
                   IF l = Beneficiary THEN Estimate ELSE Absent]]
    /\ last_locations = [t \in Txs |-> [read |-> <<>>, write |-> {}]]

\* record, one insertion.
Insert(l, t, entry) == data' = [data EXCEPT ![l][t] = entry]

\* record, one removal of a location the previous incarnation wrote.
Remove(l, t) == data' = [data EXCEPT ![l][t] = Absent]

\* Mutant: nothing is ever new.
WroteNothingNew(t, writes) == FALSE

\* record, its last step and its result.
WroteNewLocation(t, writes) == ~(writes \subseteq last_locations[t].write)

SetLastLocations(t, reads, writes) ==
    last_locations' =
        [last_locations EXCEPT ![t] = [read |-> reads, write |-> writes]]

\* validate_read_locations, one location: the entries met going down from t
\* are those of the origins, none of them an ESTIMATE, and nothing is left if
\* the last origin is the storage.
OriginsStillValid(l, t, origins) ==
    LET met == {i \in Written(l, t) :
                   origins.storage \/ \E v \in origins.mv : v[1] <= i}
    IN  /\ \A i \in met : IsData(data[l][i])
        /\ {Version(l, i) : i \in met} = origins.mv

\* What t recorded last as read at l is still there.
ReadValid(l, t) == OriginsStillValid(l, t, last_locations[t].read[l])

\* convert_writes_to_estimates, one location.
MarkEstimate(l, t) == data' = [data EXCEPT ![l][t] = Estimate]

=============================================================================
