------------------------------ MODULE MCWakeup -------------------------------
(***************************************************************************)
(* One schedule of five workers on a block of eleven transactions.  Every  *)
(* behaviour of ScheduledSpec is one of PevmSpec, in which the workers     *)
(* take turns as Schedule says.                                            *)
(***************************************************************************)
EXTENDS MCPevm

VARIABLE turn

\* The sixth transaction waits for the first, of the same sender, and reads
\* what the fourth and fifth write.  Those read what the third writes, and it
\* reads what the second writes.
Senders == <<"a", "b", "c", "e", "f", "a", "g", "h", "i", "j", "l">>
Codes ==
    2 :> <<Add("s", 1)>>
        @@ 3 :> <<ReadLoc("s"), Add("r", 1)>>
        @@ 4 :> <<ReadLoc("r"), Add("x", 1)>>
        @@ 5 :> <<ReadLoc("r"), Add("y", 1)>>
        @@ 6 :> <<ReadLoc("y"), ReadLoc("x")>>
Chained == Cancun(
    [i \in 1 .. 11 |-> Tx(Senders[i], IF i = 6 THEN 1 ELSE 0, "k", 0,
                          IF i \in DOMAIN Codes THEN Codes[i] ELSE <<>>)])

\* A turn is a worker, and the access and the transaction it stops at.
Schedule == <<
    \* The first transaction is executed; workers take the next four, and two
    \* of them have executed the fourth and fifth but not resumed anyone.
    <<1, "next", 0>>, <<4, "execute", 1>>, <<3, "execute", 2>>,
    <<2, "lock_deps", 3>>, <<5, "lock_deps", 4>>,
    \* The third transaction is executed, and aborted once the second is.
    <<3, "next", 2>>, <<4, "execute", 2>>,
    \* The fourth is aborted, and waits for the third.
    <<1, "next", 3>>, <<3, "lock_val", 4>>,
    \* The sixth meets its ESTIMATE and registers, but is not counted yet when
    \* worker 2 resumes it: the counter of its dependencies wraps.
    <<1, "count_dep", 5>>, <<2, "lower_min", 3>>,
    \* The fifth is aborted too; the sixth meets its ESTIMATE and registers.
    <<3, "count_dep", 5>>,
    \* Worker 5 counts it down from the largest value.
    <<5, "lower_min", 4>> >>

ScheduledInit == PevmInit /\ turn = 1

ScheduledNext ==
    /\ turn <= Len(Schedule)
    /\ LET w == Schedule[turn][1]
       IN  /\ WorkerStep(w)
           /\ turn' = IF <<pc'[w], tx_idx'[w]>> = <<Schedule[turn][2], Schedule[turn][3]>>
                      THEN turn + 1 ELSE turn

ScheduledSpec == ScheduledInit /\ [][ScheduledNext]_<<pevmVars, turn>>

=============================================================================
