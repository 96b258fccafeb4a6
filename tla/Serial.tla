------------------------------- MODULE Serial -------------------------------
(***************************************************************************)
(* What an execution by Vm has to do with the sequential one of Evm: the   *)
(* predicates that the proofs about Vm (SerialProofs) and those about the  *)
(* workers (PevmValuesProofs) share.                                       *)
(***************************************************************************)
EXTENDS Results

\* What a state maps locations to.
States ==
    {s \in [Locs -> Account \cup Int] : /\ \A a \in Accounts : s[a] \in Account
                                        /\ \A l \in Slots : s[l] \in Int}

\* The accesses before the code.
Prologue(t) == IF To(t) = From(t) THEN 1 ELSE 2

\* State s holds what was read, and no code where the balance is updated lazily.
Agrees(t, s, values) ==
    /\ s \in States
    /\ \A l \in DOMAIN values : s[l] = values[l]
    /\ IsMaybeLazy(t) => ~s[To(t)].code

\* The accesses of the sequential execution that stand for the first n.
Reached(t, n) == IF IsMaybeLazy(t) /\ n > 0 THEN n + 1 ELSE n

\* The state that n accesses make of s, if the journal holds view.
Completed(t, n, s, view) ==
    [l \in Locs |-> IF l \in DOMAIN view THEN view[l]
                    ELSE IF n > 0 /\ l \in LazyRecipient(t)
                    THEN Credit(s[l], Transactions[t].value)
                    ELSE s[l]]

\* Code that is run has its locations in the journal.
Noted(t, n, view) ==
    HasCode(t, view) =>
        \A k \in 1 .. n : VmAccesses[t][k].op \in {"add", "read"} =>
                              VmAccesses[t][k].loc \in DOMAIN view

\* The first n accesses have done what they do sequentially, on any state that
\* holds the values they read.
Ran(t, n, values, view, gas) ==
    \A s : Agrees(t, s, values) =>
        /\ After(t, s)[Reached(t, n)].view = Completed(t, n, s, view)
        /\ After(t, s)[Reached(t, n)].gas = gas
        /\ Noted(t, n, view)

\* What the journal holds after n accesses.
Journal(t, n, values, view) ==
    /\ DOMAIN view \subseteq DOMAIN values
    /\ n = 0 => DOMAIN view = {}
    /\ n > 0 => /\ From(t) \in DOMAIN view
                /\ NonceFits(t, values[From(t)]) /\ FundsSuffice(t, values[From(t)])
    /\ IsMaybeLazy(t) => DOMAIN view \subseteq {From(t)}
    /\ ~IsMaybeLazy(t) /\ n >= Prologue(t) => To(t) \in DOMAIN view \cup {NoAddress}

\* The journal, with what the access asks of the database.
Loaded(i, view, values) ==
    IF i.loc \in DOMAIN view \/ i.op = "reread" THEN view
    ELSE Put(view, i.loc, values[i.loc])

\* The whole of t has done what it does sequentially.
RanAll(t, values, view, gas) ==
    /\ Journal(t, Len(VmAccesses[t]), values, view)
    /\ \A s : Agrees(t, s, values) =>
           /\ RunFrom(t, s).gas = gas
           /\ Refund(t, gas, RunFrom(t, s).view) =
                  Completed(t, Len(VmAccesses[t]), s, view)

\* The entries of t are those of a write set.
InMemory(t, inc, ws) ==
    \A l \in Locs : IF l \in DOMAIN ws
                    THEN HoldsWrite(l, t, inc, ws) ELSE data[l][t] = Absent

\* What the last execution of t read, it has executed on and written accordingly.
Outcome(t) ==
    \E values, inc :
        LET read   == last_locations[t].read
            result == execution_results[t]
        IN  /\ DOMAIN values = DOMAIN read /\ DOMAIN read \subseteq Locs
            /\ \A l \in DOMAIN read : ReadMeans(l, read[l], values[l])
            /\ RanAll(t, values, result.state, result.gas) /\ result.gas \in Nat
            /\ InMemory(t, inc, WriteSet(t, result.gas, values, result.state))

\* An execution of t has made its first n accesses, as they are made sequentially.
Progress(t, n, values, view, gas) ==
    /\ n \in 0 .. Len(VmAccesses[t]) /\ gas \in Nat /\ DOMAIN values \subseteq Locs
    /\ Journal(t, n, values, view)
    /\ Ran(t, n, values, view, gas)

\* It starts with the sender, nothing read and nothing changed.
VmStarts ==
    \A t \in Txs : /\ Len(VmAccesses[t]) \in Nat \ {0}
                   /\ VmAccesses[t][1] = [op |-> "debit", loc |-> From(t)]
                   /\ Progress(t, 0, <<>>, <<>>, 1)

\* It goes over an instruction that is skipped.
VmSkips ==
    \A t \in Txs : \A n, values, view, gas :
        /\ Progress(t, n, values, view, gas) /\ n # Len(VmAccesses[t])
        /\ Skipped(t, VmAccesses[t][n + 1], view)
        => Progress(t, n + 1, values, view, gas)

\* It makes an access, once it knows the value of the location, and has checked the
\* sender's.
Informed(t, n, i, values, known) ==
    /\ DOMAIN values \subseteq DOMAIN known /\ DOMAIN known \subseteq Locs
    /\ \A l \in DOMAIN values : known[l] = values[l]
    /\ i.loc \in DOMAIN known
    /\ n = 0 => NonceFits(t, known[From(t)]) /\ FundsSuffice(t, known[From(t)])
VmSteps ==
    \A t \in Txs : \A n, i, values, view, gas, known :
        /\ Progress(t, n, values, view, gas) /\ n # Len(VmAccesses[t])
        /\ i = VmAccesses[t][n + 1] /\ ~Skipped(t, i, view)
        /\ Informed(t, n, i, values, known)
        => Progress(t, n + 1, known, Apply(t, i, Loaded(i, view, known)), gas + GasOf(i))

\* It ends with the refund.
VmFinishes ==
    \A t \in Txs : \A values, view, gas :
        Progress(t, Len(VmAccesses[t]), values, view, gas) =>
            RanAll(t, values, Refund(t, gas, view), gas)

VmSound == VmStarts /\ VmSkips /\ VmSteps /\ VmFinishes

\* A transaction debits its own sender, and none of its accesses changes the nonce
\* of another's.
NoncesKept ==
    \A u \in Txs : \A n \in 1 .. Len(VmAccesses[u]) :
        /\ VmAccesses[u][n].op = "debit" => VmAccesses[u][n].loc = From(u)
        /\ \A t \in Txs \ {u} : \A view :
               From(t) \in DOMAIN view /\ FirstNonce(t, view[From(t)]) =>
                   FirstNonce(t, Apply(u, VmAccesses[u][n], view)[From(t)])

=============================================================================
