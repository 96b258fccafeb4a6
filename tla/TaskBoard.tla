------------------------------ MODULE TaskBoard ------------------------------
(***************************************************************************)
(* What the scheduler promises to the worker threads, without the indexes, *)
(* locks and counters it is made of: a board with the transactions of the  *)
(* block.  A worker takes a ready transaction, which is then its own until *)
(* it completes it, postpones it or fails; finished transactions may be    *)
(* withdrawn and waiting ones released, by workers that hold none; and the *)
(* last worker leaves only once every transaction is finished, or after a  *)
(* failure.                                                                *)
(***************************************************************************)
EXTENDS Block

CONSTANT Workers

VARIABLES
    stage,    \* of each transaction: ready, running, waiting or finished
    running,  \* the transaction each worker runs, or None
    left,     \* the workers that have left
    failed    \* has a transaction failed?

boardVars == <<stage, running, left, failed>>

Init ==
    /\ stage \in [Txs -> {"ready", "waiting"}]
    /\ running = [w \in Workers |-> None]
    /\ left = {}
    /\ failed = FALSE

\* The worker is there and has its hands free.
Free(w) == w \notin left /\ running[w] = None

Move(t, from, to) ==
    /\ stage[t] = from
    /\ stage' = [stage EXCEPT ![t] = to]

Take(w, t) ==
    /\ Free(w)
    /\ Move(t, "ready", "running")
    /\ running' = [running EXCEPT ![w] = t]
    /\ UNCHANGED <<left, failed>>

\* The transaction is completed, or waits for another one.
PutBack(w, to) ==
    /\ w \notin left
    /\ running[w] # None
    /\ Move(running[w], "running", to)
    /\ running' = [running EXCEPT ![w] = None]
    /\ UNCHANGED <<left, failed>>

\* The first failure is kept; the worker that meets a second one is gone.
Fail(w) ==
    /\ w \notin left
    /\ running[w] # None
    /\ failed' = TRUE
    /\ running' = [running EXCEPT ![w] = None]
    /\ left' = IF failed THEN left \cup {w} ELSE left
    /\ UNCHANGED stage

\* A finished transaction must run again, or a waiting one may.
Repost(w, t) ==
    /\ Free(w)
    /\ Move(t, "finished", "waiting") \/ Move(t, "waiting", "ready")
    /\ UNCHANGED <<running, left, failed>>

MayLeave(w) ==
    \/ failed
    \/ /\ Free(w)
       /\ \/ \A t \in Txs : stage[t] = "finished"
          \/ \E v \in Workers \ {w} : v \notin left

Leave(w) ==
    /\ w \notin left
    /\ MayLeave(w)
    /\ left' = left \cup {w}
    /\ running' = [running EXCEPT ![w] = None]
    /\ UNCHANGED <<stage, failed>>

Next ==
    \E w \in Workers :
        \/ \E t \in Txs : Take(w, t) \/ Repost(w, t)
        \/ PutBack(w, "finished") \/ PutBack(w, "waiting")
        \/ Fail(w)
        \/ Leave(w)

Spec == Init /\ [][Next]_boardVars

=============================================================================
