-------------------------- MODULE SchedulerProofs --------------------------
(***************************************************************************)
(* Proofs about Scheduler, for every block size, set of workers and        *)
(* preprocessed dependencies: its types, the count of the validated        *)
(* transactions that next_task trusts, who may validate and execute a      *)
(* transaction, and how its status moves.                                  *)
(***************************************************************************)
EXTENDS Scheduler, FiniteSetTheorems, WellFoundedInduction, TLAPS

\* Abbreviations, and the conditions the actions name, are always expanded.
USE DEF Goto, At, sharedVars, idxVars, statusVars, depVars, resultVars, versionVars,
        MayStop, IsReady, DependentsAfter, Pending, ExecuteFrom, MinWith,
        Uncounted, MayAbort, ToMark

\* The transactions that are Validated.
ValidatedTxs == {t \in Txs : status[t] = "Validated"}

\* Facts about the indexes of a block.
LEMMA TxsFacts ==
    /\ BlockSize \in Nat /\ BlockSize > 0
    /\ Txs \subseteq Nat /\ None = BlockSize /\ None \notin Txs
    /\ \A t \in Nat : t < BlockSize => t \in Txs
    /\ \A t \in Txs : t \in 0 .. BlockSize /\ t + 1 \in 0 .. BlockSize
BY BlockSizeAssumption DEF Txs, None

\* Scheduler::new gives every variable its type.
LEMMA TypeInit == Init => TypeOK
<1> SUFFICES ASSUME Init PROVE TypeOK
    OBVIOUS
<1>1. IsFiniteSet(Txs) /\ Cardinality(Txs) = BlockSize
    BY BlockSizeAssumption, FS_Interval DEF Txs
<1>2. \A t \in Txs : Cardinality(Dependencies[t]) \in 0 .. (UsizeMod - 1)
    <2> SUFFICES ASSUME NEW t \in Txs
                 PROVE  Cardinality(Dependencies[t]) \in 0 .. (UsizeMod - 1)
        OBVIOUS
    <2>1. Dependencies[t] \subseteq Txs
        BY DependenciesAssumption
    <2>2. /\ IsFiniteSet(Dependencies[t])
          /\ Cardinality(Dependencies[t]) <= BlockSize
        BY <1>1, <2>1, FS_Subset
    <2>3. Cardinality(Dependencies[t]) \in Nat
        BY <2>2, FS_CardinalityType
    <2> QED
        BY <2>2, <2>3, BoundsAssumption, BlockSizeAssumption
<1>3. transactions_dependencies_num \in [Counted -> 0 .. (UsizeMod - 1)]
    BY <1>2 DEF Init, Counted
<1>4. transactions_dependents \in [Txs -> SUBSET Txs]
    BY DEF Init
<1>5. status \in [Txs -> Statuses]
    BY DEF Init, Statuses
<1>6. pc \in [Workers -> Labels]
    BY DEF Init, Labels
<1>7. /\ execution_error \in BOOLEAN
      /\ wrote_new_location \in [Workers -> BOOLEAN]
    BY ZenonT(40) DEF Init
<1>8. /\ execution_idx \in Nat /\ validation_idx \in Nat
      /\ min_validation_idx \in 0 .. BlockSize /\ num_validated \in Nat
      /\ incarnation \in [Txs -> Nat]
      /\ tx_idx \in [Workers -> Txs] /\ tx_incarnation \in [Workers -> Nat]
      /\ reg \in [Workers -> Nat]
      /\ dependent \in [Workers -> Txs \cup {None}]
      /\ next_validation_idx \in [Workers -> 0 .. BlockSize]
    BY TxsFacts DEF Init
<1> QED
    BY <1>3, <1>4, <1>5, <1>6, <1>7, <1>8 DEF TypeOK

\* The count that num_validated must equal is a number, positive as soon as
\* one transaction is Validated.
LEMMA ValidatedCount ==
    /\ IsFiniteSet(ValidatedTxs)
    /\ Cardinality(ValidatedTxs) \in Nat
    /\ \A t \in Txs : status[t] = "Validated" => Cardinality(ValidatedTxs) > 0
<1>1. IsFiniteSet(Txs)
    BY BlockSizeAssumption, FS_Interval DEF Txs
<1>2. IsFiniteSet(ValidatedTxs)
    BY <1>1, FS_Subset DEF ValidatedTxs
<1>3. Cardinality(ValidatedTxs) \in Nat
    BY <1>2, FS_CardinalityType
<1>4. ASSUME NEW t \in Txs, status[t] = "Validated"
      PROVE  Cardinality(ValidatedTxs) > 0
    <2>1. ValidatedTxs # {}
        BY <1>4 DEF ValidatedTxs
    <2> QED
        BY <1>2, <1>3, <2>1, FS_EmptySet
<1> QED
    BY <1>2, <1>3, <1>4

\* What Vm::execute returns as next_validation_idx is an index or the end.
LEMMA NextInBlock ==
    \A t \in Txs : \A next \in NextValidation(t) : next \in 0 .. BlockSize
BY BlockSizeAssumption DEF NextValidation, Txs, None

\* One action of Next preserves the types.
LEMMA TypeStep ==
    ASSUME TypeOK, NumValidatedExact, [Next]_vars PROVE TypeOK'
<1> USE TxsFacts, BoundsAssumption DEF TypeOK
<1>1. ASSUME NEW w \in Workers, LoadExecutionIdx(w)
      PROVE  TypeOK'
    BY <1>1 DEF LoadExecutionIdx, Labels
<1>2. ASSUME NEW w \in Workers, LoadValidationIdx(w)
      PROVE  TypeOK'
    BY <1>2 DEF LoadValidationIdx, Labels
<1>3. ASSUME NEW w \in Workers, LoadNumValidated(w)
      PROVE  TypeOK'
    BY <1>3 DEF LoadNumValidated, Labels
<1>4. ASSUME NEW w \in Workers, LoadMinValidationIdx(w)
      PROVE  TypeOK'
    BY <1>4 DEF LoadMinValidationIdx, Labels
<1>5. ASSUME NEW w \in Workers, FetchAddValidation(w)
      PROVE  TypeOK'
    BY <1>5 DEF FetchAddValidation, Labels
<1>6. ASSUME NEW w \in Workers, LockForValidation(w)
      PROVE  TypeOK'
    <2>1. tx_incarnation' \in [Workers -> Nat]
        BY <1>6, ZenonT(90) DEF LockForValidation
    <2>2. pc' \in [Workers -> Labels]
        BY <1>6 DEF LockForValidation, Labels
    <2> QED
        BY <1>6, <2>1, <2>2 DEF LockForValidation
<1>7. ASSUME NEW w \in Workers, FetchAddExecution(w)
      PROVE  TypeOK'
    BY <1>7 DEF FetchAddExecution, Labels
<1>8. ASSUME NEW w \in Workers, LockForExecution(w)
      PROVE  TypeOK'
    <2>1. status' \in [Txs -> Statuses]
        BY <1>8 DEF LockForExecution, Statuses
    <2>2. tx_incarnation' \in [Workers -> Nat]
        <3>1. incarnation[tx_idx[w]] \in Nat
            BY ZenonT(40)
        <3> QED
            BY <1>8, <3>1 DEF LockForExecution
    <2>3. pc' \in [Workers -> Labels]
        BY <1>8 DEF LockForExecution, Labels
    <2> QED
        BY <1>8, <2>1, <2>2, <2>3 DEF LockForExecution
<1>9. ASSUME NEW w \in Workers, LockBlocking(w)
      PROVE  TypeOK'
    BY <1>9 DEF LockBlocking, Labels
<1>10. ASSUME NEW w \in Workers, AbortSelf(w)
      PROVE  TypeOK'
    BY <1>10 DEF AbortSelf, Statuses, Labels
<1>11. ASSUME NEW w \in Workers, PushDependent(w)
      PROVE  TypeOK'
    <2>1. transactions_dependents' \in [Txs -> SUBSET Txs]
        BY <1>11, ZenonT(40) DEF PushDependent
    <2>2. reg' \in [Workers -> Nat]
        BY <1>11 DEF PushDependent
    <2>3. pc' \in [Workers -> Labels]
        BY <1>11 DEF PushDependent, Labels
    <2> QED
        BY <1>11, <2>1, <2>2, <2>3 DEF PushDependent
<1>12. ASSUME NEW w \in Workers, CountDependency(w)
      PROVE  TypeOK'
    <2>1. transactions_dependencies_num' \in [Counted -> 0 .. (UsizeMod - 1)]
        <3>1. \A t \in Counted : (transactions_dependencies_num[t] + 1) % UsizeMod
                                      \in 0 .. (UsizeMod - 1)
            OBVIOUS
        <3> QED
            BY <1>12, <3>1, ZenonT(40) DEF CountDependency
    <2>2. reg' \in [Workers -> Nat]
        BY <1>12 DEF CountDependency
    <2>3. pc' \in [Workers -> Labels]
        BY <1>12 DEF CountDependency, Labels
    <2> QED
        BY <1>12, <2>1, <2>2, <2>3 DEF CountDependency
<1>13. ASSUME NEW w \in Workers, SetExecuted(w)
      PROVE  TypeOK'
    BY <1>13 DEF SetExecuted, Statuses, Labels
<1>14. ASSUME NEW w \in Workers, LockDependents(w)
      PROVE  TypeOK'
    BY <1>14 DEF LockDependents, AfterDependent, Labels
<1>15. ASSUME NEW w \in Workers, NEW d \in Txs, CountDownDependent(w, d)
      PROVE  TypeOK'
    <2>1. transactions_dependents' \in [Txs -> SUBSET Txs]
        BY <1>15, ZenonT(40) DEF CountDownDependent
    <2>2. transactions_dependencies_num' \in [Counted -> 0 .. (UsizeMod - 1)]
        BY <1>15 DEF CountDownDependent
    <2>3. dependent' \in [Workers -> Txs \cup {None}]
        BY <1>15 DEF CountDownDependent
    <2>4. pc' \in [Workers -> Labels]
        BY <1>15 DEF CountDownDependent, AfterDependent, Labels
    <2> QED
        BY <1>15, <2>1, <2>2, <2>3, <2>4 DEF CountDownDependent
<1>16. ASSUME NEW w \in Workers, ResumeDependent(w)
      PROVE  TypeOK'
    <2>1. status' \in [Txs -> Statuses]
        BY <1>16 DEF ResumeDependent, SetReady, Statuses
    <2>2. incarnation' \in [Txs -> Nat]
        BY <1>16 DEF ResumeDependent, SetReady
    <2>3. reg' \in [Workers -> Nat]
        <3>1. Lower(dependent[w], reg[w]) \in Nat
            BY ZenonT(40) DEF Lower
        <3> QED
            BY <1>16, <3>1 DEF ResumeDependent
    <2>4. dependent' \in [Workers -> Txs \cup {None}]
        BY <1>16 DEF ResumeDependent
    <2>5. pc' \in [Workers -> Labels]
        BY <1>16 DEF ResumeDependent, AfterDependent, Labels
    <2> QED
        BY <1>16, <2>1, <2>2, <2>3, <2>4, <2>5 DEF ResumeDependent, SetReady
<1>17. ASSUME NEW w \in Workers, LowerExecutionIdx(w)
      PROVE  TypeOK'
    BY <1>17 DEF LowerExecutionIdx, Lower, Labels
<1>18. ASSUME NEW w \in Workers, LowerMinValidationIdx(w)
      PROVE  TypeOK'
    BY <1>18 DEF LowerMinValidationIdx, Lower, Labels
<1>19. ASSUME NEW w \in Workers, ValidateFromMin(w)
      PROVE  TypeOK'
    BY <1>19 DEF ValidateFromMin, Lower, Labels
<1>20. ASSUME NEW w \in Workers, CheckValidationIdx(w)
      PROVE  TypeOK'
    BY <1>20 DEF CheckValidationIdx, Labels
<1>21. ASSUME NEW w \in Workers, ValidateFromNext(w)
      PROVE  TypeOK'
    <2>1. validation_idx' \in Nat
        <3>1. tx_idx[w] + 1 \in Nat
            <4>1. tx_idx[w] \in Txs
                OBVIOUS
            <4> QED
                BY <4>1, BlockSizeAssumption DEF Txs
        <3> QED
            BY <1>21, <3>1 DEF ValidateFromNext, Lower
    <2>2. pc' \in [Workers -> Labels]
        BY <1>21 DEF ValidateFromNext, Labels
    <2> QED
        BY <1>21, <2>1, <2>2 DEF ValidateFromNext
<1>22. ASSUME NEW w \in Workers, TryValidationAbort(w)
      PROVE  TypeOK'
    <2>1. num_validated' \in Nat
        <3>1. num_validated = Cardinality(ValidatedTxs)
            BY DEF NumValidatedExact, ValidatedTxs
        <3>2. status[tx_idx[w]] = "Validated" => num_validated > 0
            BY <3>1, ValidatedCount, ZenonT(40)
        <3> QED
            BY <1>22, <3>2 DEF TryValidationAbort
    <2>2. status' \in [Txs -> Statuses]
        BY <1>22 DEF TryValidationAbort, Statuses
    <2>3. pc' \in [Workers -> Labels]
        BY <1>22 DEF TryValidationAbort, Labels
    <2> QED
        BY <1>22, <2>1, <2>2, <2>3 DEF TryValidationAbort
<1>23. ASSUME NEW w \in Workers, ReadyAborted(w)
      PROVE  TypeOK'
    BY <1>23 DEF ReadyAborted, SetReady, Statuses, Labels
<1>24. ASSUME NEW w \in Workers, ValidateHigher(w)
      PROVE  TypeOK'
    <2>1. validation_idx' \in Nat
        <3>1. tx_idx[w] + 1 \in Nat
            <4>1. tx_idx[w] \in Txs
                OBVIOUS
            <4> QED
                BY <4>1, BlockSizeAssumption DEF Txs
        <3> QED
            BY <1>24, <3>1 DEF ValidateHigher, Lower
    <2>2. pc' \in [Workers -> Labels]
        BY <1>24 DEF ValidateHigher, Labels
    <2> QED
        BY <1>24, <2>1, <2>2 DEF ValidateHigher
<1>25. ASSUME NEW w \in Workers, CheckExecutionIdx(w)
      PROVE  TypeOK'
    BY <1>25 DEF CheckExecutionIdx, Labels
<1>26. ASSUME NEW w \in Workers, MarkValidated(w)
      PROVE  TypeOK'
    BY <1>26 DEF MarkValidated, Statuses, Labels
<1>27. ASSUME NEW w \in Workers, AfterTask(w)
      PROVE  TypeOK'
    BY <1>27 DEF AfterTask, Labels
<1>28. ASSUME NEW w \in Workers, NEW b \in Txs, VmReadError(w, b)
      PROVE  TypeOK'
    BY <1>28 DEF VmReadError, Labels
<1>29. ASSUME NEW w \in Workers, NEW wrote \in BOOLEAN,
             NEW next \in NextValidation(tx_idx[w]), VmOk(w, wrote, next)
      PROVE  TypeOK'
    <2>1. next_validation_idx' \in [Workers -> 0 .. BlockSize]
        <3>1. next \in 0 .. BlockSize
            <4>1. tx_idx[w] \in Txs
                OBVIOUS
            <4> QED
                BY <1>29, <4>1, NextInBlock, Zenon
        <3> QED
            BY <1>29, <3>1 DEF VmOk
    <2>2. wrote_new_location' \in [Workers -> BOOLEAN]
        BY <1>29 DEF VmOk
    <2>3. pc' \in [Workers -> Labels]
        BY <1>29 DEF VmOk, Labels
    <2> QED
        BY <1>29, <2>1, <2>2, <2>3 DEF VmOk
<1>30. ASSUME NEW w \in Workers, VmExecutionError(w)
      PROVE  TypeOK'
    BY <1>30 DEF VmExecutionError, Labels
<1>31. ASSUME NEW w \in Workers, ReadSetValid(w)
      PROVE  TypeOK'
    BY <1>31 DEF ReadSetValid, Labels
<1>32. ASSUME NEW w \in Workers, ReadSetInvalid(w)
      PROVE  TypeOK'
    BY <1>32 DEF ReadSetInvalid, Labels
<1>33. ASSUME NEW w \in Workers, EstimatesWritten(w)
      PROVE  TypeOK'
    BY <1>33 DEF EstimatesWritten, Labels
<1>34. ASSUME UNCHANGED vars PROVE TypeOK'
    BY <1>34 DEF vars
<1> QED
    BY <1>1, <1>2, <1>3, <1>4, <1>5, <1>6, <1>7, <1>8, <1>9, <1>10, <1>11,
       <1>12, <1>13, <1>14, <1>15, <1>16, <1>17, <1>18, <1>19, <1>20, <1>21,
       <1>22, <1>23, <1>24, <1>25, <1>26, <1>27, <1>28, <1>29, <1>30, <1>31,
       <1>32, <1>33, <1>34, ZenonT(90)
    DEF Next, SchedulerStep, EnvironmentStep, Terminated

-----------------------------------------------------------------------------
\* Only seven actions touch a status or the count of the validated ones.
StatusAction(w) ==
    \/ LockForExecution(w)
    \/ AbortSelf(w)
    \/ SetExecuted(w)
    \/ ResumeDependent(w)
    \/ TryValidationAbort(w)
    \/ ReadyAborted(w)
    \/ MarkValidated(w)

\* Any other step leaves statuses and count alone.
LEMMA StatusSteps ==
    ASSUME [Next]_vars
    PROVE  UNCHANGED statusVars \/ \E w \in Workers : StatusAction(w)
<1>1. ASSUME NEW w \in Workers, SchedulerStep(w)
      PROVE  UNCHANGED statusVars \/ StatusAction(w)
    BY <1>1, ZenonT(40) DEF SchedulerStep, StatusAction, LoadExecutionIdx,
       LoadValidationIdx, LoadNumValidated, LoadMinValidationIdx,
       FetchAddValidation, LockForValidation, FetchAddExecution, LockBlocking,
       PushDependent, CountDependency, LockDependents, CountDownDependent,
       LowerExecutionIdx, LowerMinValidationIdx, ValidateFromMin,
       CheckValidationIdx, ValidateFromNext, ValidateHigher,
       CheckExecutionIdx, AfterTask
<1>2. ASSUME NEW w \in Workers, EnvironmentStep(w)
      PROVE  UNCHANGED statusVars
    BY <1>2 DEF EnvironmentStep, VmReadError, VmOk, VmExecutionError,
       ReadSetValid, ReadSetInvalid, EstimatesWritten
<1>3. ASSUME UNCHANGED vars PROVE UNCHANGED statusVars
    BY <1>3 DEF vars
<1> QED
    BY <1>1, <1>2, <1>3, ZenonT(40) DEF Next, Terminated

\* A step that enters or leaves Validated changes num_validated by one.
LEMMA NumValidatedStep ==
    ASSUME TypeOK, NumValidatedExact, [Next]_vars
    PROVE  NumValidatedExact'
<1> DEFINE V == ValidatedTxs
<1> USE DEF ValidatedTxs
<1>1. num_validated = Cardinality(V)
    BY DEF NumValidatedExact
<1>2. IsFiniteSet(V) /\ Cardinality(V) \in Nat
    BY ValidatedCount
<1>3. SUFFICES num_validated' = Cardinality(V')
    BY DEF NumValidatedExact
<1>4. CASE V' = V /\ num_validated' = num_validated
    BY <1>1, <1>4
<1>5. ASSUME NEW w \in Workers, MarkValidated(w), status[tx_idx[w]] = "Executed"
      PROVE  num_validated' = Cardinality(V')
    <2>1. tx_idx[w] \notin V /\ V' = V \cup {tx_idx[w]}
        BY <1>5 DEF MarkValidated, TypeOK
    <2>2. Cardinality(V \cup {tx_idx[w]}) = Cardinality(V) + 1
        BY <1>2, <2>1, FS_AddElement, ZenonT(40)
    <2> QED
        BY <1>1, <1>5, <2>1, <2>2 DEF MarkValidated
<1>6. ASSUME NEW w \in Workers, TryValidationAbort(w),
             status[tx_idx[w]] = "Validated"
      PROVE  num_validated' = Cardinality(V')
    <2>1. tx_idx[w] \in V /\ V' = V \ {tx_idx[w]}
        BY <1>6 DEF TryValidationAbort, Finished, TypeOK
    <2>2. Cardinality(V \ {tx_idx[w]}) = Cardinality(V) - 1
        BY <1>2, <2>1, FS_RemoveElement, ZenonT(40)
    <2> QED
        BY <1>1, <1>6, <2>1, <2>2 DEF TryValidationAbort
<1>7. ASSUME NEW w \in Workers, StatusAction(w),
             ~(MarkValidated(w) /\ status[tx_idx[w]] = "Executed"),
             ~(TryValidationAbort(w) /\ status[tx_idx[w]] = "Validated")
      PROVE  V' = V /\ num_validated' = num_validated
    <2>1. CASE LockForExecution(w)
        BY <2>1 DEF LockForExecution, TypeOK
    <2>2. CASE AbortSelf(w)
        BY <2>2 DEF AbortSelf, TypeOK
    <2>3. CASE SetExecuted(w)
        BY <2>3 DEF SetExecuted, TypeOK
    <2>4. CASE ResumeDependent(w)
        BY <2>4 DEF ResumeDependent, SetReady, TypeOK
    <2>5. CASE TryValidationAbort(w)
        BY <1>7, <2>5 DEF TryValidationAbort, Finished, TypeOK
    <2>6. CASE ReadyAborted(w)
        BY <2>6 DEF ReadyAborted, SetReady, TypeOK
    <2>7. CASE MarkValidated(w)
        BY <1>7, <2>7 DEF MarkValidated, TypeOK
    <2> QED
        BY <1>7, <2>1, <2>2, <2>3, <2>4, <2>5, <2>6, <2>7 DEF StatusAction
<1>8. CASE UNCHANGED statusVars
    BY <1>1, <1>8
<1> QED
    BY <1>4, <1>5, <1>6, <1>7, <1>8, StatusSteps

\* Nothing is Validated at first.
LEMMA NumValidatedInit == Init => NumValidatedExact
<1> SUFFICES ASSUME Init PROVE NumValidatedExact
    OBVIOUS
<1>1. {t \in Txs : status[t] = "Validated"} = {}
    BY DEF Init
<1> QED
    BY <1>1, FS_EmptySet, ZenonT(40) DEF Init, NumValidatedExact

\* Every variable of the scheduler keeps its type: no index of finish_execution
\* or finish_validation leaves the block, no dependency counter its width.
THEOREM TypeCorrect == Spec => []TypeOK
<1>1. Init => TypeOK /\ NumValidatedExact
    BY TypeInit, NumValidatedInit
<1>2. TypeOK /\ NumValidatedExact /\ [Next]_vars => (TypeOK /\ NumValidatedExact)'
    BY TypeStep, NumValidatedStep
<1> QED
    BY <1>1, <1>2, PTL DEF Spec

\* num_validated always is the number of Validated transactions, whatever
\* aborts and validations of the same transaction race.
THEOREM NumValidatedCorrect == Spec => []NumValidatedExact
<1>1. Init => TypeOK /\ NumValidatedExact
    BY TypeInit, NumValidatedInit
<1>2. TypeOK /\ NumValidatedExact /\ [Next]_vars => (TypeOK /\ NumValidatedExact)'
    BY TypeStep, NumValidatedStep
<1> QED
    BY <1>1, <1>2, PTL DEF Spec

-----------------------------------------------------------------------------
\* The types of the indexes, as the arithmetic of MinStep needs them.
LEMMA IndexTypes ==
    ASSUME TypeOK
    PROVE  /\ min_validation_idx \in Nat /\ validation_idx \in Nat
           /\ \A w \in Workers : tx_idx[w] \in Nat /\ reg[w] \in Nat
<1>1. \A t \in Txs : t \in Nat
    BY BlockSizeAssumption DEF Txs
<1>2. \A w \in Workers : tx_idx[w] \in Txs /\ reg[w] \in Nat
    BY DEF TypeOK
<1>3. min_validation_idx \in Nat /\ validation_idx \in Nat
    BY BlockSizeAssumption, SMTT(30) DEF TypeOK
<1> QED
    BY <1>1, <1>2, <1>3

\* Nothing below min_validation_idx is handed out for validation.
LEMMA MinStep ==
    ASSUME TypeOK, MinInv, [Next]_vars PROVE MinInv'
<1> USE TxsFacts DEF TypeOK, MinInv, Validates
<1>1. ASSUME NEW w \in Workers, LoadExecutionIdx(w)
      PROVE  MinInv'
    BY <1>1 DEF LoadExecutionIdx
<1>2. ASSUME NEW w \in Workers, LoadValidationIdx(w)
      PROVE  MinInv'
    BY <1>2 DEF LoadValidationIdx
<1>3. ASSUME NEW w \in Workers, LoadNumValidated(w)
      PROVE  MinInv'
    BY <1>3 DEF LoadNumValidated
<1>4. ASSUME NEW w \in Workers, LoadMinValidationIdx(w)
      PROVE  MinInv'
    BY <1>4 DEF LoadMinValidationIdx
<1>5. ASSUME NEW w \in Workers, FetchAddValidation(w)
      PROVE  MinInv'
    BY <1>5 DEF FetchAddValidation
<1>6. ASSUME NEW w \in Workers, LockForValidation(w)
      PROVE  MinInv'
    BY <1>6 DEF LockForValidation, Finished
<1>7. ASSUME NEW w \in Workers, FetchAddExecution(w)
      PROVE  MinInv'
    BY <1>7 DEF FetchAddExecution
<1>8. ASSUME NEW w \in Workers, LockForExecution(w)
      PROVE  MinInv'
    BY <1>8 DEF LockForExecution
<1>9. ASSUME NEW w \in Workers, LockBlocking(w)
      PROVE  MinInv'
    BY <1>9 DEF LockBlocking, Finished
<1>10. ASSUME NEW w \in Workers, AbortSelf(w)
      PROVE  MinInv'
    BY <1>10 DEF AbortSelf
<1>11. ASSUME NEW w \in Workers, PushDependent(w)
      PROVE  MinInv'
    BY <1>11 DEF PushDependent
<1>12. ASSUME NEW w \in Workers, CountDependency(w)
      PROVE  MinInv'
    BY <1>12 DEF CountDependency
<1>13. ASSUME NEW w \in Workers, SetExecuted(w)
      PROVE  MinInv'
    BY <1>13 DEF SetExecuted
<1>14. ASSUME NEW w \in Workers, LockDependents(w)
      PROVE  MinInv'
    BY <1>14 DEF LockDependents, AfterDependent
<1>15. ASSUME NEW w \in Workers, NEW d \in Txs, CountDownDependent(w, d)
      PROVE  MinInv'
    BY <1>15 DEF CountDownDependent, AfterDependent
<1>16. ASSUME NEW w \in Workers, ResumeDependent(w)
      PROVE  MinInv'
    BY <1>16, SMTT(30) DEF ResumeDependent, AfterDependent, SetReady, Lower
<1>17. ASSUME NEW w \in Workers, LowerExecutionIdx(w)
      PROVE  MinInv'
    BY <1>17 DEF LowerExecutionIdx, Lower
<1>18. ASSUME NEW w \in Workers, LowerMinValidationIdx(w)
      PROVE  MinInv'
    <2> DEFINE m == Lower(min_validation_idx, next_validation_idx[w])
    <2>1. m \in Nat /\ m <= min_validation_idx /\ min_validation_idx' = m
        BY <1>18 DEF LowerMinValidationIdx, Lower
    <2>2. /\ min_validation_idx \in Nat /\ validation_idx \in Nat
          /\ \A v \in Workers : tx_idx[v] \in Nat /\ reg[v] \in Nat
        BY IndexTypes
    <2>3. /\ validation_idx' = validation_idx /\ status' = status
          /\ tx_idx' = tx_idx
          /\ \A v \in Workers \ {w} : pc'[v] = pc[v] /\ reg'[v] = reg[v]
        BY <1>18 DEF LowerMinValidationIdx
    <2>4. /\ Validates(w)' => tx_idx[w] >= m
          /\ pc'[w] = "validate_from_min" => reg'[w] >= m
        <3> HIDE DEF m
        <3>1. /\ pc'[w] = IF m >= BlockSize THEN "ret_none"
                          ELSE IF tx_idx[w] >= m THEN "check_val"
                          ELSE IF wrote_new_location[w] THEN "validate_from_min"
                          ELSE "ret_none"
              /\ reg'[w] = m /\ tx_idx'[w] = tx_idx[w]
            BY <1>18 DEF LowerMinValidationIdx, m
        <3> QED
            BY <2>1, <3>1
    <2> HIDE DEF m
    <2> QED
        BY <2>1, <2>2, <2>3, <2>4
<1>19. ASSUME NEW w \in Workers, ValidateFromMin(w)
      PROVE  MinInv'
    BY <1>19 DEF ValidateFromMin, Lower
<1>20. ASSUME NEW w \in Workers, CheckValidationIdx(w)
      PROVE  MinInv'
    BY <1>20 DEF CheckValidationIdx
<1>21. ASSUME NEW w \in Workers, ValidateFromNext(w)
      PROVE  MinInv'
    <2>1. /\ tx_idx[w] \in Nat /\ tx_idx[w] >= min_validation_idx
          /\ min_validation_idx \in Nat /\ validation_idx \in Nat
        BY <1>21, IndexTypes DEF ValidateFromNext
    <2>2. Lower(validation_idx, tx_idx[w] + 1) >= min_validation_idx
        BY <2>1 DEF Lower
    <2> QED
        BY <1>21, <2>2 DEF ValidateFromNext
<1>22. ASSUME NEW w \in Workers, TryValidationAbort(w)
      PROVE  MinInv'
    BY <1>22 DEF TryValidationAbort, Finished
<1>23. ASSUME NEW w \in Workers, ReadyAborted(w)
      PROVE  MinInv'
    BY <1>23 DEF ReadyAborted, SetReady
<1>24. ASSUME NEW w \in Workers, ValidateHigher(w)
      PROVE  MinInv'
    <2>1. /\ tx_idx[w] \in Nat /\ tx_idx[w] >= min_validation_idx
          /\ min_validation_idx \in Nat /\ validation_idx \in Nat
        BY <1>24, IndexTypes DEF ValidateHigher
    <2>2. Lower(validation_idx, tx_idx[w] + 1) >= min_validation_idx
        BY <2>1 DEF Lower
    <2> QED
        BY <1>24, <2>2 DEF ValidateHigher
<1>25. ASSUME NEW w \in Workers, CheckExecutionIdx(w)
      PROVE  MinInv'
    BY <1>25 DEF CheckExecutionIdx
<1>26. ASSUME NEW w \in Workers, MarkValidated(w)
      PROVE  MinInv'
    BY <1>26 DEF MarkValidated
<1>27. ASSUME NEW w \in Workers, AfterTask(w)
      PROVE  MinInv'
    BY <1>27 DEF AfterTask
<1>28. ASSUME NEW w \in Workers, NEW b \in Txs, VmReadError(w, b)
      PROVE  MinInv'
    BY <1>28 DEF VmReadError
<1>29. ASSUME NEW w \in Workers, NEW wrote \in BOOLEAN,
             NEW next \in NextValidation(tx_idx[w]), VmOk(w, wrote, next)
      PROVE  MinInv'
    BY <1>29 DEF VmOk
<1>30. ASSUME NEW w \in Workers, VmExecutionError(w)
      PROVE  MinInv'
    BY <1>30 DEF VmExecutionError
<1>31. ASSUME NEW w \in Workers, ReadSetValid(w)
      PROVE  MinInv'
    BY <1>31 DEF ReadSetValid
<1>32. ASSUME NEW w \in Workers, ReadSetInvalid(w)
      PROVE  MinInv'
    BY <1>32 DEF ReadSetInvalid
<1>33. ASSUME NEW w \in Workers, EstimatesWritten(w)
      PROVE  MinInv'
    BY <1>33 DEF EstimatesWritten
<1>34. ASSUME UNCHANGED vars PROVE MinInv'
    BY <1>34, ZenonT(40) DEF vars
<1> QED
    BY <1>1, <1>2, <1>3, <1>4, <1>5, <1>6, <1>7, <1>8, <1>9, <1>10, <1>11,
       <1>12, <1>13, <1>14, <1>15, <1>16, <1>17, <1>18, <1>19, <1>20, <1>21,
       <1>22, <1>23, <1>24, <1>25, <1>26, <1>27, <1>28, <1>29, <1>30, <1>31,
       <1>32, <1>33, <1>34, ZenonT(40)
    DEF Next, SchedulerStep, EnvironmentStep, Terminated

\* A transaction changes hands only through its status.
LEMMA ExecutorStep ==
    ASSUME TypeOK, ExecutorInv, [Next]_vars PROVE ExecutorInv'
<1> USE DEF TypeOK, ExecutorInv, SingleExecutor, Runs
<1>1. ASSUME NEW w \in Workers, LoadExecutionIdx(w)
      PROVE  ExecutorInv'
    BY <1>1 DEF LoadExecutionIdx
<1>2. ASSUME NEW w \in Workers, LoadValidationIdx(w)
      PROVE  ExecutorInv'
    BY <1>2 DEF LoadValidationIdx
<1>3. ASSUME NEW w \in Workers, LoadNumValidated(w)
      PROVE  ExecutorInv'
    BY <1>3 DEF LoadNumValidated
<1>4. ASSUME NEW w \in Workers, LoadMinValidationIdx(w)
      PROVE  ExecutorInv'
    BY <1>4 DEF LoadMinValidationIdx
<1>5. ASSUME NEW w \in Workers, FetchAddValidation(w)
      PROVE  ExecutorInv'
    BY <1>5 DEF FetchAddValidation
<1>6. ASSUME NEW w \in Workers, LockForValidation(w)
      PROVE  ExecutorInv'
    BY <1>6 DEF LockForValidation, Finished
<1>7. ASSUME NEW w \in Workers, FetchAddExecution(w)
      PROVE  ExecutorInv'
    BY <1>7, SMTT(30) DEF FetchAddExecution
<1>8. ASSUME NEW w \in Workers, LockForExecution(w)
      PROVE  ExecutorInv'
    <2>1. CASE status[tx_idx[w]] = "ReadyToExecute"
        <3>1. /\ tx_idx' = tx_idx
              /\ status' = [status EXCEPT ![tx_idx[w]] = "Executing"]
              /\ \A v \in Workers \ {w} : pc'[v] = pc[v]
            BY <1>8, <2>1 DEF LockForExecution
        <3>2. \A v \in Workers \ {w} : Runs(v) => tx_idx[v] # tx_idx[w]
            BY <2>1
        <3> QED
            BY <3>1, <3>2
    <2>2. CASE status[tx_idx[w]] # "ReadyToExecute"
        BY <1>8, <2>2 DEF LockForExecution
    <2> QED
        BY <2>1, <2>2
<1>9. ASSUME NEW w \in Workers, LockBlocking(w)
      PROVE  ExecutorInv'
    BY <1>9 DEF LockBlocking, Finished
<1>10. ASSUME NEW w \in Workers, AbortSelf(w)
      PROVE  ExecutorInv'
    BY <1>10 DEF AbortSelf
<1>11. ASSUME NEW w \in Workers, PushDependent(w)
      PROVE  ExecutorInv'
    BY <1>11 DEF PushDependent
<1>12. ASSUME NEW w \in Workers, CountDependency(w)
      PROVE  ExecutorInv'
    BY <1>12 DEF CountDependency
<1>13. ASSUME NEW w \in Workers, SetExecuted(w)
      PROVE  ExecutorInv'
    BY <1>13 DEF SetExecuted
<1>14. ASSUME NEW w \in Workers, LockDependents(w)
      PROVE  ExecutorInv'
    BY <1>14 DEF LockDependents, AfterDependent
<1>15. ASSUME NEW w \in Workers, NEW d \in Txs, CountDownDependent(w, d)
      PROVE  ExecutorInv'
    BY <1>15 DEF CountDownDependent, AfterDependent
<1>16. ASSUME NEW w \in Workers, ResumeDependent(w)
      PROVE  ExecutorInv'
    <2>1. /\ tx_idx' = tx_idx
          /\ \A t \in Txs : status[t] = "Executing" => status'[t] = "Executing"
        BY <1>16 DEF ResumeDependent, SetReady
    <2>2. /\ \A v \in Workers \ {w} : pc'[v] = pc[v]
          /\ ~Runs(w)'
        BY <1>16 DEF ResumeDependent, AfterDependent
    <2> QED
        BY <2>1, <2>2
<1>17. ASSUME NEW w \in Workers, LowerExecutionIdx(w)
      PROVE  ExecutorInv'
    BY <1>17 DEF LowerExecutionIdx, Lower
<1>18. ASSUME NEW w \in Workers, LowerMinValidationIdx(w)
      PROVE  ExecutorInv'
    BY <1>18 DEF LowerMinValidationIdx, Lower
<1>19. ASSUME NEW w \in Workers, ValidateFromMin(w)
      PROVE  ExecutorInv'
    BY <1>19 DEF ValidateFromMin, Lower
<1>20. ASSUME NEW w \in Workers, CheckValidationIdx(w)
      PROVE  ExecutorInv'
    BY <1>20 DEF CheckValidationIdx
<1>21. ASSUME NEW w \in Workers, ValidateFromNext(w)
      PROVE  ExecutorInv'
    BY <1>21 DEF ValidateFromNext, Lower
<1>22. ASSUME NEW w \in Workers, TryValidationAbort(w)
      PROVE  ExecutorInv'
    BY <1>22 DEF TryValidationAbort, Finished
<1>23. ASSUME NEW w \in Workers, ReadyAborted(w)
      PROVE  ExecutorInv'
    <2>1. /\ tx_idx' = tx_idx /\ ~Runs(w)'
          /\ \A v \in Workers \ {w} : pc'[v] = pc[v]
        BY <1>23 DEF ReadyAborted
    <2>2. \A t \in Txs : status[t] = "Executing" => status'[t] = "Executing"
        BY <1>23 DEF ReadyAborted, SetReady
    <2> QED
        BY <2>1, <2>2
<1>24. ASSUME NEW w \in Workers, ValidateHigher(w)
      PROVE  ExecutorInv'
    BY <1>24 DEF ValidateHigher, Lower
<1>25. ASSUME NEW w \in Workers, CheckExecutionIdx(w)
      PROVE  ExecutorInv'
    BY <1>25 DEF CheckExecutionIdx
<1>26. ASSUME NEW w \in Workers, MarkValidated(w)
      PROVE  ExecutorInv'
    BY <1>26 DEF MarkValidated
<1>27. ASSUME NEW w \in Workers, AfterTask(w)
      PROVE  ExecutorInv'
    BY <1>27 DEF AfterTask
<1>28. ASSUME NEW w \in Workers, NEW b \in Txs, VmReadError(w, b)
      PROVE  ExecutorInv'
    BY <1>28 DEF VmReadError
<1>29. ASSUME NEW w \in Workers, NEW wrote \in BOOLEAN,
             NEW next \in NextValidation(tx_idx[w]), VmOk(w, wrote, next)
      PROVE  ExecutorInv'
    BY <1>29 DEF VmOk
<1>30. ASSUME NEW w \in Workers, VmExecutionError(w)
      PROVE  ExecutorInv'
    BY <1>30 DEF VmExecutionError
<1>31. ASSUME NEW w \in Workers, ReadSetValid(w)
      PROVE  ExecutorInv'
    BY <1>31 DEF ReadSetValid
<1>32. ASSUME NEW w \in Workers, ReadSetInvalid(w)
      PROVE  ExecutorInv'
    BY <1>32 DEF ReadSetInvalid
<1>33. ASSUME NEW w \in Workers, EstimatesWritten(w)
      PROVE  ExecutorInv'
    BY <1>33 DEF EstimatesWritten
<1>34. ASSUME UNCHANGED vars PROVE ExecutorInv'
    BY <1>34 DEF vars
<1> QED
    BY <1>1, <1>2, <1>3, <1>4, <1>5, <1>6, <1>7, <1>8, <1>9, <1>10, <1>11,
       <1>12, <1>13, <1>14, <1>15, <1>16, <1>17, <1>18, <1>19, <1>20, <1>21,
       <1>22, <1>23, <1>24, <1>25, <1>26, <1>27, <1>28, <1>29, <1>30, <1>31,
       <1>32, <1>33, <1>34, ZenonT(40)
    DEF Next, SchedulerStep, EnvironmentStep, Terminated

\* Once no worker is left to count a transaction below the minimum, the count
\* can only reach BlockSize - min_validation_idx by covering the rest.
LEMMA StopCondition ==
    ASSUME TypeOK, NumValidatedExact, MinInv PROVE StopConditionSound
<1> DEFINE Above == min_validation_idx .. (BlockSize - 1)
<1>1. SUFFICES ASSUME num_validated >= BlockSize - min_validation_idx
               PROVE  \A t \in Txs : t >= min_validation_idx
                          => status[t] = "Validated"
    BY DEF StopConditionSound
<1>2. /\ BlockSize \in Nat /\ min_validation_idx \in Nat
      /\ min_validation_idx <= BlockSize
    BY BlockSizeAssumption DEF TypeOK
<1>3. IsFiniteSet(Above) /\ Cardinality(Above) = BlockSize - min_validation_idx
    <2>1. /\ min_validation_idx \in Int /\ BlockSize - 1 \in Int
        BY <1>2
    <2>2. /\ IsFiniteSet(Above)
          /\ Cardinality(Above) = IF min_validation_idx > BlockSize - 1 THEN 0
                                  ELSE (BlockSize - 1) - min_validation_idx + 1
        BY <2>1, FS_Interval
    <2> QED
        BY <1>2, <2>2
<1>4. ValidatedTxs \subseteq Above
    BY <1>2 DEF MinInv, ValidatedTxs, Txs
<1>5. num_validated = Cardinality(ValidatedTxs)
    BY DEF NumValidatedExact, ValidatedTxs
<1>6. /\ Cardinality(ValidatedTxs) <= Cardinality(Above)
      /\ Cardinality(ValidatedTxs) = Cardinality(Above) => ValidatedTxs = Above
    BY <1>3, <1>4, FS_Subset, ZenonT(40)
<1>7. Cardinality(ValidatedTxs) \in Nat
    BY ValidatedCount
<1>8. ValidatedTxs = Above
    BY <1>1, <1>2, <1>3, <1>5, <1>6, <1>7
<1> QED
    BY <1>2, <1>8 DEF ValidatedTxs, Txs

\* Nothing below min_validation_idx is ever validated: finish_execution and
\* finish_validation never lower validation_idx past it.
THEOREM MinCorrect == Spec => []MinInv
<1> DEFINE I == TypeOK /\ NumValidatedExact /\ MinInv
<1>1. Init => I
    <2>1. Init => MinInv
        BY BlockSizeAssumption DEF Init, MinInv, Validates
    <2> QED
        BY <2>1, TypeInit, NumValidatedInit
<1>2. I /\ [Next]_vars => I'
    BY TypeStep, NumValidatedStep, MinStep
<1> QED
    BY <1>1, <1>2, PTL DEF Spec

\* When the condition that ends next_task holds, every transaction from
\* min_validation_idx on is Validated.
THEOREM StopConditionCorrect == Spec => []StopConditionSound
<1>1. Spec => []TypeOK /\ []NumValidatedExact /\ []MinInv
    BY TypeCorrect, NumValidatedCorrect, MinCorrect
<1>2. TypeOK /\ NumValidatedExact /\ MinInv => StopConditionSound
    BY StopCondition
<1> QED
    BY <1>1, <1>2, PTL

\* No two workers ever run the same transaction: try_execute hands it out
\* once per incarnation.
THEOREM SingleExecutorCorrect == Spec => []SingleExecutor
<1> DEFINE I == TypeOK /\ NumValidatedExact /\ ExecutorInv
<1>1. Init => I
    <2>1. Init => ExecutorInv
        BY DEF Init, ExecutorInv, SingleExecutor, Runs
    <2> QED
        BY <2>1, TypeInit, NumValidatedInit
<1>2. I /\ [Next]_vars => I'
    BY TypeStep, NumValidatedStep, ExecutorStep
<1>3. I => SingleExecutor
    BY DEF ExecutorInv
<1> QED
    BY <1>1, <1>2, <1>3, PTL DEF Spec

\* Every step moves every transaction along the documented state machine.
LEMMA StatusMoves ==
    ASSUME TypeOK, [Next]_vars PROVE \A t \in Txs : StatusStep(t)
<1>1. CASE UNCHANGED statusVars
    BY <1>1, ZenonT(40) DEF StatusStep
<1>2. ASSUME NEW w \in Workers, StatusAction(w)
      PROVE  \A t \in Txs : StatusStep(t)
    <2> USE DEF TypeOK, StatusStep
    <2>1. CASE LockForExecution(w)
        BY <2>1 DEF LockForExecution
    <2>2. CASE AbortSelf(w)
        BY <2>2 DEF AbortSelf
    <2>3. CASE SetExecuted(w)
        BY <2>3 DEF SetExecuted
    <2>4. CASE ResumeDependent(w)
        BY <2>4 DEF ResumeDependent, SetReady
    <2>5. CASE TryValidationAbort(w)
        BY <2>5 DEF TryValidationAbort, Finished
    <2>6. CASE ReadyAborted(w)
        BY <2>6 DEF ReadyAborted, SetReady
    <2>7. CASE MarkValidated(w)
        BY <2>7 DEF MarkValidated
    <2> QED
        BY <1>2, <2>1, <2>2, <2>3, <2>4, <2>5, <2>6, <2>7, ZenonT(60)
        DEF StatusAction
<1> QED
    BY <1>1, <1>2, StatusSteps

\* The statuses follow the state machine documented at IncarnationStatus, and
\* incarnations grow when an aborted transaction becomes ready again.
THEOREM StatusMachineCorrect == Spec => StatusMachine
<1>1. ASSUME TypeOK, [Next]_vars PROVE [\A t \in Txs : StatusStep(t)]_vars
    BY <1>1, StatusMoves
<1>2. Spec => []TypeOK
    BY TypeCorrect
<1> QED
    BY <1>1, <1>2, PTL DEF Spec, StatusMachine

-----------------------------------------------------------------------------
(***************************************************************************)
(* What steps have in common.                                              *)
(***************************************************************************)

\* A set of naturals that is not empty has a least element: of the intervals
\* below its elements, one contains no other.
LEMMA LeastElement ==
    ASSUME NEW S, S \subseteq Nat, S # {}
    PROVE  \E m \in S : \A k \in S : m <= k
<1> DEFINE T == {0 .. n : n \in S}
<1>1. T # {} /\ T \subseteq FiniteSubsetsOf(Nat)
    <2>1. \A n \in S : IsFiniteSet(0 .. n) /\ 0 .. n \in SUBSET Nat
        BY FS_Interval
    <2> QED
        BY <2>1 DEF FiniteSubsetsOf
<1>2. PICK x \in T : \A y \in T : <<y, x>> \notin StrictSubsetOrdering(Nat)
    <2> HIDE DEF T
    <2> QED
        BY <1>1, FS_StrictSubsetOrderingWellFounded, WFMin
<1>3. PICK m \in S : x = 0 .. m
    OBVIOUS
<1>4. ASSUME NEW k \in S PROVE ~(k < m)
    <2>1. SUFFICES ASSUME k < m PROVE FALSE
        OBVIOUS
    <2>2. /\ 0 .. k \in SUBSET Nat /\ 0 .. m \in SUBSET Nat
          /\ 0 .. k \subseteq 0 .. m /\ m \in 0 .. m /\ m \notin 0 .. k
        BY <2>1
    <2>3. <<0 .. k, 0 .. m>> \in StrictSubsetOrdering(Nat)
        BY <2>2, Zenon DEF StrictSubsetOrdering
    <2> QED
        BY <1>2, <1>3, <2>3
<1> QED
    BY <1>4

\* The place from which each operation is taken.
LEMMA Guards ==
    ASSUME NEW w \in Workers
    PROVE  /\ LoadExecutionIdx(w) => pc[w] = "next"
           /\ LoadValidationIdx(w) => pc[w] = "next_val"
           /\ LoadNumValidated(w) => pc[w] = "check_validated"
           /\ LoadMinValidationIdx(w) => pc[w] = "check_min"
           /\ FetchAddValidation(w) => pc[w] = "fetch_val"
           /\ LockForValidation(w) => pc[w] = "lock_val"
           /\ FetchAddExecution(w) => pc[w] \in {"fetch_exec", "refetch_exec"}
           /\ LockForExecution(w) => pc[w] \in {"lock_exec", "relock_exec"}
           /\ LockBlocking(w) => pc[w] = "add_dep"
           /\ AbortSelf(w) => pc[w] = "abort_self"
           /\ PushDependent(w) => pc[w] = "push_dep"
           /\ CountDependency(w) => pc[w] = "count_dep"
           /\ SetExecuted(w) => pc[w] = "finish_exec"
           /\ LockDependents(w) => pc[w] = "lock_deps"
           /\ (\E d \in Txs : CountDownDependent(w, d)) => pc[w] = "resume"
           /\ ResumeDependent(w) => pc[w] = "resume_ready"
           /\ LowerExecutionIdx(w) => pc[w] = "lower_exec"
           /\ LowerMinValidationIdx(w) => pc[w] = "lower_min"
           /\ ValidateFromMin(w) => pc[w] = "validate_from_min"
           /\ CheckValidationIdx(w) => pc[w] = "check_val"
           /\ ValidateFromNext(w) => pc[w] = "validate_from_next"
           /\ TryValidationAbort(w) => pc[w] = "try_abort"
           /\ ReadyAborted(w) => pc[w] = "ready_aborted"
           /\ ValidateHigher(w) => pc[w] = "validate_higher"
           /\ CheckExecutionIdx(w) => pc[w] = "check_exec"
           /\ MarkValidated(w) => pc[w] = "finish_valid"
           /\ AfterTask(w) => pc[w] \in {"ret_none", "ret_execution", "ret_validation"}
           /\ EnvironmentStep(w) => pc[w] \in {"execute", "validate", "estimate"}
BY ZenonT(60) DEF LoadExecutionIdx, LoadValidationIdx, LoadNumValidated,
   LoadMinValidationIdx, FetchAddValidation, LockForValidation,
   FetchAddExecution, LockForExecution, LockBlocking, AbortSelf,
   PushDependent, CountDependency, SetExecuted, LockDependents,
   CountDownDependent, ResumeDependent, LowerExecutionIdx,
   LowerMinValidationIdx, ValidateFromMin, CheckValidationIdx,
   ValidateFromNext, TryValidationAbort, ReadyAborted, ValidateHigher,
   CheckExecutionIdx, MarkValidated, AfterTask, EnvironmentStep, VmReadError,
   VmOk, VmExecutionError, ReadSetValid, ReadSetInvalid, EstimatesWritten

\* Worker w is the only one whose locals change.
Alone(w) ==
    \A v \in Workers \ {w} : /\ pc'[v] = pc[v] /\ tx_idx'[v] = tx_idx[v]
                             /\ reg'[v] = reg[v] /\ dependent'[v] = dependent[v]

\* A step is one of a single worker.
LEMMA OneWorker ==
    ASSUME TypeOK, NEW w \in Workers, SchedulerStep(w) \/ EnvironmentStep(w)
    PROVE  Alone(w)
<1>1. /\ pc \in [Workers -> Labels] /\ tx_idx \in [Workers -> Txs]
      /\ reg \in [Workers -> Nat] /\ dependent \in [Workers -> Txs \cup {None}]
    BY DEF TypeOK
<1>2. CASE LoadExecutionIdx(w) \/ LoadValidationIdx(w) \/ LoadNumValidated(w)
           \/ LoadMinValidationIdx(w) \/ FetchAddValidation(w) \/
           LockForValidation(w) \/ FetchAddExecution(w) \/ LockForExecution(w)
           \/ LockBlocking(w)
    BY <1>1, <1>2, ZenonT(40) DEF Alone, LoadExecutionIdx, LoadValidationIdx,
       LoadNumValidated, LoadMinValidationIdx, FetchAddValidation,
       LockForValidation, FetchAddExecution, LockForExecution, LockBlocking
<1>3. CASE AbortSelf(w) \/ PushDependent(w) \/ CountDependency(w) \/
           SetExecuted(w) \/ LockDependents(w)
    BY <1>1, <1>3, ZenonT(60) DEF Alone, AbortSelf, PushDependent,
       CountDependency, SetExecuted, LockDependents
<1>4. CASE \/ ResumeDependent(w) \/ LowerExecutionIdx(w)
           \/ LowerMinValidationIdx(w) \/ \E d \in Txs : CountDownDependent(w, d)
    <2>1. CASE \E d \in Txs : CountDownDependent(w, d)
        BY <1>1, <2>1, ZenonT(40) DEF Alone, CountDownDependent
    <2>2. CASE ResumeDependent(w)
        BY <1>1, <2>2, ZenonT(40) DEF Alone, ResumeDependent
    <2>3. CASE LowerExecutionIdx(w) \/ LowerMinValidationIdx(w)
        BY <1>1, <2>3, ZenonT(60) DEF Alone, LowerExecutionIdx, LowerMinValidationIdx
    <2> QED
        BY <1>4, <2>1, <2>2, <2>3
<1>5. CASE ValidateFromMin(w) \/ CheckValidationIdx(w) \/ ValidateFromNext(w)
           \/ TryValidationAbort(w) \/ ReadyAborted(w) \/ ValidateHigher(w) \/
           CheckExecutionIdx(w) \/ MarkValidated(w) \/ AfterTask(w)
    BY <1>1, <1>5, ZenonT(40) DEF Alone, ValidateFromMin, CheckValidationIdx,
       ValidateFromNext, TryValidationAbort, ReadyAborted, ValidateHigher,
       CheckExecutionIdx, MarkValidated, AfterTask
<1>6. CASE EnvironmentStep(w)
    <2>1. CASE \E wrote \in BOOLEAN : \E next \in NextValidation(tx_idx[w]) :
                   VmOk(w, wrote, next)
        BY <1>1, <2>1, ZenonT(40) DEF Alone, VmOk
    <2>2. CASE \/ \E b \in Txs : VmReadError(w, b)
               \/ VmExecutionError(w) \/ ReadSetValid(w) \/ ReadSetInvalid(w)
               \/ EstimatesWritten(w)
        BY <1>1, <2>2, ZenonT(40) DEF Alone, VmReadError, VmExecutionError,
           ReadSetValid, ReadSetInvalid, EstimatesWritten
    <2> QED
        BY <1>6, <2>1, <2>2, ZenonT(40) DEF EnvironmentStep
<1> QED
    BY <1>2, <1>3, <1>4, <1>5, <1>6, ZenonT(40) DEF SchedulerStep

\* Only finish_execution makes a transaction finished.
LEMMA FinishSteps ==
    ASSUME TypeOK, [Next]_vars, NEW t \in Txs, Finished(t)', ~Finished(t)
    PROVE  \E w \in Workers : SetExecuted(w) /\ tx_idx[w] = t
<1>1. PICK w \in Workers : StatusAction(w)
    BY StatusSteps DEF Finished
<1> USE DEF TypeOK, Finished
<1>2. CASE LockForExecution(w)
    BY <1>2 DEF LockForExecution
<1>3. CASE AbortSelf(w)
    BY <1>3, Zenon DEF AbortSelf
<1>4. CASE SetExecuted(w)
    BY <1>4 DEF SetExecuted
<1>5. CASE ResumeDependent(w)
    BY <1>5 DEF ResumeDependent, SetReady
<1>6. CASE TryValidationAbort(w)
    BY <1>6 DEF TryValidationAbort
<1>7. CASE ReadyAborted(w)
    BY <1>7 DEF ReadyAborted, SetReady
<1>8. CASE MarkValidated(w)
    BY <1>8 DEF MarkValidated
<1> QED
    BY <1>1, <1>2, <1>3, <1>4, <1>5, <1>6, <1>7, <1>8, Zenon DEF StatusAction

\* Only try_validate and try_execute of the scheduler set an incarnation.
LEMMA VersionSteps ==
    ASSUME TypeOK, NEW w \in Workers, SchedulerStep(w) \/ EnvironmentStep(w)
    PROVE  \A v \in Workers \ {w} : tx_incarnation'[v] = tx_incarnation[v]
<1>1. CASE LockForValidation(w) \/ LockForExecution(w)
    BY <1>1 DEF LockForValidation, LockForExecution, TypeOK
<1>2. CASE SchedulerStep(w)
    <2>1. UNCHANGED tx_incarnation \/ LockForValidation(w) \/ LockForExecution(w)
        BY <1>2, ZenonT(60) DEF SchedulerStep, LoadExecutionIdx, LoadValidationIdx,
           LoadNumValidated, LoadMinValidationIdx, FetchAddValidation,
           FetchAddExecution, LockBlocking, AbortSelf, PushDependent,
           CountDependency, SetExecuted, LockDependents, CountDownDependent,
           ResumeDependent, LowerExecutionIdx, LowerMinValidationIdx,
           ValidateFromMin, CheckValidationIdx, ValidateFromNext,
           TryValidationAbort, ReadyAborted, ValidateHigher, CheckExecutionIdx,
           MarkValidated, AfterTask
    <2> QED
        BY <1>1, <2>1
<1>3. CASE EnvironmentStep(w)
    BY <1>3, ZenonT(60) DEF EnvironmentStep, VmReadError, VmOk, VmExecutionError,
       ReadSetValid, ReadSetInvalid, EstimatesWritten
<1> QED
    BY <1>2, <1>3

\* A worker that runs a transaction has just taken its current incarnation, or
\* was running it before; it finishes what it has executed.
LEMMA RunningSteps ==
    ASSUME TypeOK, NEW w \in Workers, SchedulerStep(w) \/ EnvironmentStep(w),
           Runs(w)'
    PROVE  /\ \/ /\ tx_idx'[w] = tx_idx[w] /\ UNCHANGED incarnation
                 /\ tx_incarnation'[w] = incarnation[tx_idx[w]]
              \/ Runs(w) /\ UNCHANGED versionVars
           /\ pc'[w] = "finish_exec" => pc[w] = "execute"
<1>1. /\ pc \in [Workers -> Labels] /\ tx_incarnation \in [Workers -> Nat]
      /\ tx_idx[w] \in Txs
    BY DEF TypeOK
<1>2. CASE LockForExecution(w)
    BY <1>1, <1>2, Zenon DEF LockForExecution, Runs
<1>3. CASE LockBlocking(w) \/ AfterTask(w)
    BY <1>1, <1>3, Zenon DEF LockBlocking, AfterTask, Runs
<1>4. CASE EnvironmentStep(w)
    <2>1. UNCHANGED versionVars
        BY <1>4, ZenonT(60) DEF EnvironmentStep, VmReadError, VmOk,
           VmExecutionError, ReadSetValid, ReadSetInvalid, EstimatesWritten
    <2>2. CASE pc[w] = "execute"
        BY <2>1, <2>2, Zenon DEF Runs
    <2>3. CASE pc[w] # "execute"
        <3>1. ReadSetValid(w) \/ ReadSetInvalid(w) \/ EstimatesWritten(w)
            BY <1>4, <2>3, ZenonT(60) DEF EnvironmentStep, VmReadError, VmOk,
               VmExecutionError
        <3> QED
            BY <1>1, <3>1 DEF ReadSetValid, ReadSetInvalid, EstimatesWritten, Runs
    <2> QED
        BY <2>2, <2>3
<1>5. CASE LoadExecutionIdx(w) \/ LoadValidationIdx(w) \/ LoadNumValidated(w)
           \/ LoadMinValidationIdx(w) \/ FetchAddValidation(w)
           \/ LockForValidation(w) \/ FetchAddExecution(w)
    BY <1>1, <1>5, ZenonT(60) DEF LoadExecutionIdx, LoadValidationIdx,
       LoadNumValidated, LoadMinValidationIdx, FetchAddValidation,
       LockForValidation, FetchAddExecution, Runs
<1>6. CASE AbortSelf(w) \/ PushDependent(w) \/ CountDependency(w)
           \/ SetExecuted(w) \/ LockDependents(w) \/ ResumeDependent(w)
           \/ \E d \in Txs : CountDownDependent(w, d)
    BY <1>1, <1>6, ZenonT(60) DEF AbortSelf, PushDependent, CountDependency,
       SetExecuted, LockDependents, ResumeDependent, CountDownDependent,
       AfterDependent, Runs
<1>7. CASE LowerExecutionIdx(w) \/ LowerMinValidationIdx(w) \/ ValidateFromMin(w)
           \/ CheckValidationIdx(w) \/ ValidateFromNext(w)
    BY <1>1, <1>7, ZenonT(60) DEF LowerExecutionIdx, LowerMinValidationIdx,
       ValidateFromMin, CheckValidationIdx, ValidateFromNext, Runs
<1>8. CASE TryValidationAbort(w) \/ ReadyAborted(w) \/ ValidateHigher(w)
           \/ CheckExecutionIdx(w) \/ MarkValidated(w)
    BY <1>1, <1>8, ZenonT(40) DEF TryValidationAbort, ReadyAborted,
       ValidateHigher, CheckExecutionIdx, MarkValidated, Runs
<1> QED
    BY <1>2, <1>3, <1>4, <1>5, <1>6, <1>7, <1>8, ZenonT(60) DEF SchedulerStep

\* The error, once set, stays.
LEMMA ErrorSteps ==
    ASSUME NEW w \in Workers, SchedulerStep(w) \/ EnvironmentStep(w),
           execution_error
    PROVE  execution_error'
<1>1. CASE SchedulerStep(w)
    BY <1>1, ZenonT(60) DEF SchedulerStep, LoadExecutionIdx,
       LoadValidationIdx, LoadNumValidated, LoadMinValidationIdx,
       FetchAddValidation, LockForValidation, FetchAddExecution,
       LockForExecution, LockBlocking, AbortSelf, PushDependent,
       CountDependency, SetExecuted, LockDependents, CountDownDependent,
       ResumeDependent, LowerExecutionIdx, LowerMinValidationIdx,
       ValidateFromMin, CheckValidationIdx, ValidateFromNext,
       TryValidationAbort, ReadyAborted, ValidateHigher, CheckExecutionIdx,
       MarkValidated, AfterTask
<1>2. CASE EnvironmentStep(w)
    BY <1>2, ZenonT(40) DEF EnvironmentStep, VmReadError, VmOk,
       VmExecutionError, ReadSetValid, ReadSetInvalid, EstimatesWritten
<1> QED
    BY <1>1, <1>2

\* The scheduler sets no error.
LEMMA SchedulerErrors ==
    ASSUME NEW w \in Workers, SchedulerStep(w), ~execution_error
    PROVE  ~execution_error'
BY ZenonT(60) DEF SchedulerStep, LoadExecutionIdx,
   LoadValidationIdx, LoadNumValidated, LoadMinValidationIdx,
   FetchAddValidation, LockForValidation, FetchAddExecution,
   LockForExecution, LockBlocking, AbortSelf, PushDependent,
   CountDependency, SetExecuted, LockDependents, CountDownDependent,
   ResumeDependent, LowerExecutionIdx, LowerMinValidationIdx,
   ValidateFromMin, CheckValidationIdx, ValidateFromNext,
   TryValidationAbort, ReadyAborted, ValidateHigher, CheckExecutionIdx,
   MarkValidated, AfterTask

=============================================================================
