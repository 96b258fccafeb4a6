----------------------------- MODULE MCScheduler -----------------------------
(* Instances of Scheduler for TLC. *)
EXTENDS SchedulerBoard, TLC

\* Preprocessed dependencies: the last transaction on all the others.
FanInDeps == [t \in Txs |-> IF t + 1 = BlockSize THEN Txs \ {t} ELSE {}]

Symmetry == Permutations(Workers)

=============================================================================
