-------------------------------- MODULE Block --------------------------------
(***************************************************************************)
(* The indexes of a block's transactions, shared by every component.       *)
(***************************************************************************)
EXTENDS Naturals

CONSTANT BlockSize  \* number of transactions of the block

\* execute_revm returns at once on an empty block.
ASSUME BlockSizeAssumption == BlockSize \in Nat \ {0}

Txs == 0 .. (BlockSize - 1)

\* The absent index of an Option<TxIdx>.
None == BlockSize

\* AtomicUsize::fetch_min, and std::cmp::min.
Lower(a, b) == IF a <= b THEN a ELSE b

\* The sum of amount over the first n transactions is Total(amount)[n].
Total(amount) ==
    LET sum[n \in 0 .. BlockSize] ==
            IF n = 0 THEN 0 ELSE sum[n - 1] + amount[n - 1]
    IN  sum

=============================================================================
