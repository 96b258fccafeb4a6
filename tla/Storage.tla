------------------------------- MODULE Storage -------------------------------
(***************************************************************************)
(* What the trait Storage (src/src/storage.rs) promises to the threads of  *)
(* the executor: every call returns what the chain holds, or an error.     *)
(***************************************************************************)
CONSTANTS
    Callers,
    NoRequest, Error,
    ChainAnswers    \* what the chain holds: requests -> answers

VARIABLES
    request,    \* the call each thread waits for
    answer      \* what its last call returned

storageVars == <<request, answer>>

Init ==
    /\ request = [c \in Callers |-> NoRequest]
    /\ answer = [c \in Callers |-> NoRequest]

Call(c, r) ==
    /\ request[c] = NoRequest
    /\ request' = [request EXCEPT ![c] = r]
    /\ answer' = [answer EXCEPT ![c] = NoRequest]

Return(c) ==
    /\ request[c] # NoRequest
    /\ \E a \in {ChainAnswers[request[c]], Error} :
           answer' = [answer EXCEPT ![c] = a]
    /\ request' = [request EXCEPT ![c] = NoRequest]

Next == \E c \in Callers : Return(c) \/ \E r \in DOMAIN ChainAnswers : Call(c, r)

SafeSpec == Init /\ [][Next]_storageVars

=============================================================================
