-------------------------- MODULE SchedulerTheorems -------------------------
(***************************************************************************)
(* Proofs about Scheduler: an aborted transaction is in one place, and no  *)
(* worker panics; the counters of preprocessed dependencies, and no        *)
(* aborted transaction is forgotten; no transaction is overlooked, the     *)
(* workers leave with every transaction finished, and what they do are     *)
(* steps of the board of tasks (TaskBoard).                                *)
(***************************************************************************)
EXTENDS SchedulerBoard, SchedulerProofs

\* Abbreviations, and the conditions the actions name, are always expanded.
USE ZenonT(60) DEF Goto, At, sharedVars, idxVars, statusVars, depVars, resultVars, versionVars,
        MayStop, IsReady, DependentsAfter, Pending, ExecuteFrom, MinWith,
        Uncounted, MayAbort, ToMark

-----------------------------------------------------------------------------
(***************************************************************************)
(* What each kind of step does to the transactions that wait for another.  *)
(***************************************************************************)

\* What a step leaves alone when it neither takes nor gives up a transaction.
SameWaits ==
    /\ transactions_dependents' = transactions_dependents
    /\ transactions_dependencies_num' = transactions_dependencies_num
    /\ \A v \in Workers : At(v, "count_dep")' =>
           At(v, "count_dep") /\ tx_idx'[v] = tx_idx[v]
SameHolder(v) == Holds(v)' => Holds(v) /\ HeldTx(v)' = HeldTx(v)

\* Such a step changes nothing of what a transaction waits for.
LEMMA SameWaitsFor ==
    ASSUME SameWaits
    PROVE  \A t \in Txs : /\ WaitsFor(t)' = WaitsFor(t)
                          /\ WaitsForOne(t) => WaitsForOne(t)'
                          /\ WaitsAsPreprocessed(t) => WaitsAsPreprocessed(t)'
<1>1. \A t \in Txs : WaitsFor(t)' = WaitsFor(t)
    BY DEF SameWaits, WaitsFor
<1>2. \A t \in Txs : WaitsForOne(t) => WaitsForOne(t)'
    BY <1>1 DEF WaitsForOne
<1>3. \A t \in Txs : WaitsAsPreprocessed(t) => WaitsAsPreprocessed(t)'
    BY <1>1 DEF WaitsAsPreprocessed, SameWaits
<1> QED
    BY <1>1, <1>2, <1>3

\* A step that keeps every Aborting status and every holder.
LEMMA WaitFrame ==
    ASSUME WaitInv, SameWaits,
           \A v \in Workers : SameHolder(v),
           \A t \in Txs : status[t] = "Aborting" => status'[t] = "Aborting"
    PROVE  WaitInv'
<1>1. \A t \in Txs : WaitsFor(t)' # {} => status'[t] = "Aborting"
    BY SameWaitsFor DEF WaitInv
<1>2. \A v \in Workers : Holds(v)' => HeldIsAborted(v)'
    BY DEF WaitInv, SameHolder, SameWaits, HeldIsAborted, WaitsFor
<1>3. \A u, v \in Workers :
          Holds(u)' /\ Holds(v)' /\ HeldTx(u)' = HeldTx(v)' => u = v
    BY DEF WaitInv, SameHolder
<1>4. \A t \in Txs : WaitsForOne(t)' \/ WaitsAsPreprocessed(t)'
    BY SameWaitsFor DEF WaitInv
<1> QED
    BY <1>1, <1>2, <1>3, <1>4 DEF WaitInv

\* A step that aborts a transaction and becomes its holder.
LEMMA WaitTake ==
    ASSUME TypeOK, WaitInv, SameWaits, NEW w \in Workers,
           status[tx_idx[w]] # "Aborting",
           status' = [status EXCEPT ![tx_idx[w]] = "Aborting"],
           HeldTx(w)' = tx_idx[w],
           \A v \in Workers \ {w} : SameHolder(v)
    PROVE  WaitInv'
<1> DEFINE x == tx_idx[w]
<1>1. x \in Txs /\ status'[x] = "Aborting"
    BY DEF TypeOK
<1>2. \A t \in Txs : status[t] = "Aborting" => status'[t] = "Aborting"
    BY DEF TypeOK
<1>3. WaitsFor(x) = {} /\ \A v \in Workers : Holds(v) => HeldTx(v) # x
    BY <1>1 DEF WaitInv, HeldIsAborted
<1>4. \A t \in Txs : WaitsFor(t)' # {} => status'[t] = "Aborting"
    BY <1>2, SameWaitsFor DEF WaitInv
<1>5. \A v \in Workers : Holds(v)' => HeldIsAborted(v)'
  <2>1. \A t \in Txs : WaitsFor(t)' = WaitsFor(t)
    BY DEF SameWaits, WaitsFor
  <2>2. HeldIsAborted(w)'
    BY <1>1, <1>3, <2>1 DEF HeldIsAborted
  <2>3. ASSUME NEW v \in Workers, v # w, Holds(v)'
        PROVE  HeldIsAborted(v)'
    <3>1. Holds(v) /\ HeldTx(v)' = HeldTx(v)
        BY <2>3 DEF SameHolder
    <3>2. HeldIsAborted(v)
        BY <3>1 DEF WaitInv
    <3> QED
        BY <1>2, <2>1, <3>1, <3>2 DEF HeldIsAborted
  <2> QED
    BY <2>2, <2>3
<1>6. \A u, v \in Workers :
          Holds(u)' /\ Holds(v)' /\ HeldTx(u)' = HeldTx(v)' => u = v
    BY <1>3 DEF WaitInv, SameHolder
<1>7. \A t \in Txs : WaitsForOne(t)' \/ WaitsAsPreprocessed(t)'
    BY SameWaitsFor DEF WaitInv
<1> QED
    BY <1>4, <1>5, <1>6, <1>7 DEF WaitInv

\* A holder makes its transaction ready and lets go of it.
LEMMA WaitRelease ==
    ASSUME TypeOK, WaitInv, SameWaits, NEW w \in Workers,
           Holds(w), ~Holds(w)',
           \A t \in Txs : t # HeldTx(w) => status'[t] = status[t],
           \A v \in Workers \ {w} : SameHolder(v)
    PROVE  WaitInv'
<1> DEFINE x == HeldTx(w)
<1>1. /\ x \in Txs /\ WaitsFor(x) = {}
      /\ \A v \in Workers \ {w} : Holds(v) => HeldTx(v) # x
    BY DEF WaitInv, HeldIsAborted
<1>2. \A t \in Txs : WaitsFor(t)' # {} => status'[t] = "Aborting"
    BY <1>1, SameWaitsFor DEF WaitInv
<1>3. \A v \in Workers : Holds(v)' => HeldIsAborted(v)'
    BY <1>1 DEF WaitInv, SameHolder, SameWaits, HeldIsAborted, WaitsFor
<1>4. \A u, v \in Workers :
          Holds(u)' /\ Holds(v)' /\ HeldTx(u)' = HeldTx(v)' => u = v
    BY DEF WaitInv, SameHolder
<1>5. \A t \in Txs : WaitsForOne(t)' \/ WaitsAsPreprocessed(t)'
    BY SameWaitsFor DEF WaitInv
<1> QED
    BY <1>2, <1>3, <1>4, <1>5 DEF WaitInv

\* A counter above zero does not wrap when it is decremented.
LEMMA WrapDown ==
    ASSUME NEW n \in Nat, NEW m \in Nat, n > 0, n < m
    PROVE  (n + m - 1) % m = n - 1
<1>1. n - 1 \in 0 .. (m - 1) /\ m > 0
    BY SMTT(30)
<1>2. n + m - 1 = m * 1 + (n - 1)
    BY SMTT(30)
<1> QED
    BY <1>1, <1>2, SMTT(30)

\* A dependency counter that is positive goes down by one.
LEMMA CountDown ==
    ASSUME NEW n \in 0 .. (UsizeMod - 1), n > 0
    PROVE  (n + UsizeMod - 1) % UsizeMod = n - 1
BY WrapDown, BoundsAssumption, SMTT(30)

\* finish_execution passes a dependent over, or takes it.
LEMMA CountDownWaits ==
    ASSUME TypeOK, WaitInv, NEW w \in Workers, NEW d \in Txs,
           CountDownDependent(w, d)
    PROVE  WaitInv'
<1> DEFINE b == tx_idx[w]
           pending == d \in Counted /\ transactions_dependencies_num[d] > 1
<1>1. /\ b \in Txs /\ b \in WaitsFor(d) /\ status[d] = "Aborting"
      /\ status' = status /\ tx_idx' = tx_idx
    BY DEF CountDownDependent, WaitsFor, TypeOK, WaitInv
<1>2. /\ WaitsFor(d)' = WaitsFor(d) \ {b}
      /\ \A t \in Txs \ {d} : WaitsFor(t)' = WaitsFor(t)
    BY <1>1 DEF CountDownDependent, WaitsFor, TypeOK
<1>3. \A v \in Workers : Holds(v) => HeldTx(v) # d
    BY <1>1 DEF WaitInv, HeldIsAborted
<1>4. /\ \A v \in Workers \ {w} : SameHolder(v)
      /\ ~Holds(w) /\ ~At(w, "count_dep")'
      /\ \A v \in Workers \ {w} : pc'[v] = pc[v]
    BY DEF CountDownDependent, AfterDependent, SameHolder, Holds, HeldTx, TypeOK
<1>5. /\ Holds(w)' => ~pending /\ HeldTx(w)' = d
      /\ pending => ~Holds(w)'
    BY DEF CountDownDependent, AfterDependent, Holds, HeldTx, TypeOK
<1>6. IsFiniteSet(WaitsFor(d)) /\ Cardinality(WaitsFor(d)) \in Nat
    <2>1. IsFiniteSet(Txs)
        BY BlockSizeAssumption, FS_Interval, SMTT(30) DEF Txs
    <2>2. IsFiniteSet(WaitsFor(d))
        BY <2>1, FS_Subset DEF WaitsFor
    <2> QED
        BY <2>2, FS_CardinalityType
<1>7. /\ IsFiniteSet(WaitsFor(d) \ {b})
      /\ Cardinality(WaitsFor(d) \ {b}) = Cardinality(WaitsFor(d)) - 1
    BY <1>1, <1>6, FS_RemoveElement
<1>8. ASSUME ~pending PROVE WaitsFor(d)' = {}
    <2>1. CASE WaitsForOne(d)
        BY <1>1, <1>2, <2>1 DEF WaitsForOne
    <2>2. CASE WaitsAsPreprocessed(d)
        <3>1. /\ transactions_dependencies_num[d] = Cardinality(WaitsFor(d))
              /\ transactions_dependencies_num[d] <= 1
            BY <1>6, <1>8, <2>2, SMTT(30) DEF WaitsAsPreprocessed
        <3>2. Cardinality(WaitsFor(d) \ {b}) \in Nat
            BY <1>7, FS_CardinalityType
        <3>3. Cardinality(WaitsFor(d) \ {b}) = 0
            BY <1>6, <1>7, <3>1, <3>2, SMTT(30)
        <3> QED
            BY <1>2, <1>7, <3>3, FS_EmptySet
    <2> QED
        BY <2>1, <2>2 DEF WaitInv
<1>9. ASSUME pending, WaitsAsPreprocessed(d) PROVE WaitsAsPreprocessed(d)'
    <2>1. /\ transactions_dependencies_num[d] = Cardinality(WaitsFor(d))
          /\ transactions_dependencies_num[d] > 1 /\ d \in Counted
        BY <1>9 DEF WaitsAsPreprocessed
    <2>2. /\ transactions_dependencies_num[d] \in 0 .. (UsizeMod - 1)
          /\ transactions_dependencies_num'[d] =
                (transactions_dependencies_num[d] + UsizeMod - 1) % UsizeMod
        BY <2>1 DEF CountDownDependent, TypeOK
    <2>3. transactions_dependencies_num'[d] = transactions_dependencies_num[d] - 1
        BY <2>1, <2>2, CountDown, SMTT(30)
    <2>4. Cardinality(WaitsFor(d)') = Cardinality(WaitsFor(d)) - 1
        BY <1>2, <1>7
    <2> QED
        BY <1>1, <1>4, <1>9, <2>1, <2>3, <2>4 DEF WaitsAsPreprocessed, At
<1>10. ASSUME NEW t \in Txs, t # d
       PROVE  WaitsForOne(t)' \/ WaitsAsPreprocessed(t)'
    <2>1. WaitsForOne(t) => WaitsForOne(t)'
        BY <1>2, <1>10 DEF WaitsForOne
    <2>2. t \in Counted =>
             transactions_dependencies_num'[t] = transactions_dependencies_num[t]
        BY <1>10 DEF CountDownDependent, TypeOK
    <2>3. WaitsAsPreprocessed(t) => WaitsAsPreprocessed(t)'
        BY <1>1, <1>2, <1>4, <1>10, <2>2 DEF WaitsAsPreprocessed, At
    <2> QED
        BY <2>1, <2>3 DEF WaitInv
<1>11. WaitsForOne(d)' \/ WaitsAsPreprocessed(d)'
    <2>1. WaitsForOne(d) => WaitsForOne(d)'
        BY <1>2 DEF WaitsForOne
    <2>2. ~pending => WaitsForOne(d)'
        BY <1>8 DEF WaitsForOne
    <2> QED
        BY <1>9, <2>1, <2>2 DEF WaitInv
<1>12. \A t \in Txs : WaitsFor(t)' # {} => status'[t] = "Aborting"
    BY <1>1, <1>2 DEF WaitInv
<1>13. \A v \in Workers : Holds(v)' => HeldIsAborted(v)'
    <2>1. ASSUME NEW v \in Workers \ {w}, Holds(v)'
          PROVE  HeldIsAborted(v)'
        <3>1. /\ Holds(v) /\ HeldTx(v)' = HeldTx(v)
              /\ HeldIsAborted(v) /\ HeldTx(v) # d
            BY <1>3, <1>4, <2>1 DEF SameHolder, WaitInv
        <3> QED
            BY <1>1, <1>2, <3>1 DEF HeldIsAborted, WaitsFor
    <2>2. ASSUME Holds(w)' PROVE HeldIsAborted(w)'
        <3>1. HeldTx(w)' = d /\ WaitsFor(d)' = {}
            BY <1>5, <1>8, <2>2
        <3> QED
            BY <1>1, <3>1 DEF HeldIsAborted, WaitsFor
    <2> QED
        BY <2>1, <2>2
<1>14. \A u, v \in Workers :
           Holds(u)' /\ Holds(v)' /\ HeldTx(u)' = HeldTx(v)' => u = v
    BY <1>3, <1>4, <1>5 DEF SameHolder, WaitInv
<1> QED
    BY <1>10, <1>11, <1>12, <1>13, <1>14 DEF WaitInv

\* add_dependency hands its transaction over to the blocking one.
LEMMA PushWaits ==
    ASSUME TypeOK, WaitInv, NEW w \in Workers, PushDependent(w)
    PROVE  WaitInv'
<1> DEFINE x == tx_idx[w]
<1>1. /\ x \in Txs /\ status[x] = "Aborting" /\ WaitsFor(x) = {}
      /\ \A v \in Workers \ {w} : Holds(v) => HeldTx(v) # x
      /\ status' = status /\ tx_idx' = tx_idx
      /\ transactions_dependencies_num' = transactions_dependencies_num
    BY ZenonT(40)
    DEF PushDependent, Holds, HeldTx, HeldIsAborted, TypeOK, WaitInv
<1>2. /\ \A t \in Txs \ {x} : WaitsFor(t)' = WaitsFor(t)
      /\ \A t \in Txs : t = x => WaitsFor(t)' \subseteq {reg[w]}
    BY <1>1, SMTT(30) DEF PushDependent, WaitsFor, TypeOK
<1>3. /\ \A v \in Workers \ {w} : SameHolder(v) /\ pc'[v] = pc[v]
      /\ ~Holds(w)'
    BY DEF PushDependent, SameHolder, Holds, HeldTx, TypeOK
<1>4. \A t \in Txs : WaitsFor(t)' # {} => status'[t] = "Aborting"
    BY <1>1, <1>2 DEF WaitInv
<1>5. \A v \in Workers : Holds(v)' => HeldIsAborted(v)'
    <2>1. SUFFICES ASSUME NEW v \in Workers \ {w}, Holds(v)'
                   PROVE  HeldIsAborted(v)'
        BY <1>3
    <2>2. /\ HeldTx(v)' = HeldTx(v) /\ HeldIsAborted(v) /\ HeldTx(v) # x
        BY <1>1, <1>3, <2>1 DEF SameHolder, WaitInv
    <2> QED
        BY <1>1, <1>2, <2>2, SMTT(30) DEF HeldIsAborted, WaitsFor
<1>6. \A u, v \in Workers :
          Holds(u)' /\ Holds(v)' /\ HeldTx(u)' = HeldTx(v)' => u = v
    BY <1>3 DEF SameHolder, WaitInv
<1>7. ASSUME NEW t \in Txs PROVE WaitsForOne(t)' \/ WaitsAsPreprocessed(t)'
    <2>1. CASE t = x
        BY <1>2, <2>1 DEF WaitsForOne
    <2>2. CASE t # x
        <3>1. WaitsForOne(t) => WaitsForOne(t)'
            BY <1>2, <2>2 DEF WaitsForOne
        <3>2. WaitsAsPreprocessed(t) => WaitsAsPreprocessed(t)'
            BY <1>1, <1>2, <1>3, <2>2 DEF WaitsAsPreprocessed, At
        <3> QED
            BY <3>1, <3>2 DEF WaitInv
    <2> QED
        BY <2>1, <2>2
<1> QED
    BY <1>4, <1>5, <1>6, <1>7 DEF WaitInv

\* Counting a dependency late concerns a transaction that waits for one.
LEMMA CountWaits ==
    ASSUME TypeOK, WaitInv, NEW w \in Workers, CountDependency(w)
    PROVE  WaitInv'
<1> DEFINE x == tx_idx[w]
<1>1. /\ status' = status /\ tx_idx' = tx_idx
      /\ \A t \in Txs : WaitsFor(t)' = WaitsFor(t)
      /\ \A t \in Counted : t # x =>
            transactions_dependencies_num'[t] = transactions_dependencies_num[t]
    BY DEF CountDependency, WaitsFor, TypeOK
<1>2. /\ \A v \in Workers : SameHolder(v)
      /\ \A v \in Workers : At(v, "count_dep")' => At(v, "count_dep")
    BY DEF CountDependency, SameHolder, Holds, HeldTx, At, TypeOK
<1>3. \A t \in Txs : WaitsFor(t)' # {} => status'[t] = "Aborting"
    BY <1>1 DEF WaitInv
<1>4. \A v \in Workers : Holds(v)' => HeldIsAborted(v)'
    <2>1. transactions_dependents' = transactions_dependents
        BY DEF CountDependency
    <2> QED
        BY <1>1, <1>2, <2>1, SMTT(30) DEF SameHolder, HeldIsAborted, WaitsFor, WaitInv
<1>5. \A u, v \in Workers :
          Holds(u)' /\ Holds(v)' /\ HeldTx(u)' = HeldTx(v)' => u = v
    BY <1>2 DEF SameHolder, WaitInv
<1>6. ASSUME NEW t \in Txs PROVE WaitsForOne(t)' \/ WaitsAsPreprocessed(t)'
    <2>1. WaitsForOne(t) => WaitsForOne(t)'
        BY <1>1 DEF WaitsForOne
    <2>2. WaitsAsPreprocessed(t) => t # x
        BY DEF WaitsAsPreprocessed, CountDependency
    <2>3. WaitsAsPreprocessed(t) => WaitsAsPreprocessed(t)'
        BY <1>1, <1>2, <2>2 DEF WaitsAsPreprocessed
    <2> QED
        BY <2>1, <2>3 DEF WaitInv
<1> QED
    BY <1>3, <1>4, <1>5, <1>6 DEF WaitInv

-----------------------------------------------------------------------------
\* Every step keeps an aborted transaction in exactly one place.
LEMMA WaitStep ==
    ASSUME TypeOK, WaitInv, [Next]_vars PROVE WaitInv'
<1>1. ASSUME NEW w \in Workers, LoadExecutionIdx(w)
      PROVE  WaitInv'
    <2>1. SameWaits /\ \A v \in Workers : SameHolder(v)
        BY <1>1
        DEF LoadExecutionIdx, SameWaits, SameHolder, Holds, HeldTx, TypeOK
    <2> QED
        BY <1>1, <2>1, WaitFrame DEF LoadExecutionIdx
<1>2. ASSUME NEW w \in Workers, LoadValidationIdx(w)
      PROVE  WaitInv'
    <2>1. SameWaits /\ \A v \in Workers : SameHolder(v)
        BY <1>2
        DEF LoadValidationIdx, SameWaits, SameHolder, Holds, HeldTx, TypeOK
    <2> QED
        BY <1>2, <2>1, WaitFrame DEF LoadValidationIdx
<1>3. ASSUME NEW w \in Workers, LoadNumValidated(w)
      PROVE  WaitInv'
    <2>1. SameWaits /\ \A v \in Workers : SameHolder(v)
        BY <1>3
        DEF LoadNumValidated, SameWaits, SameHolder, Holds, HeldTx, TypeOK
    <2> QED
        BY <1>3, <2>1, WaitFrame DEF LoadNumValidated
<1>4. ASSUME NEW w \in Workers, LoadMinValidationIdx(w)
      PROVE  WaitInv'
    <2>1. SameWaits /\ \A v \in Workers : SameHolder(v)
        BY <1>4
        DEF LoadMinValidationIdx, SameWaits, SameHolder, Holds, HeldTx, TypeOK
    <2> QED
        BY <1>4, <2>1, WaitFrame DEF LoadMinValidationIdx
<1>5. ASSUME NEW w \in Workers, FetchAddValidation(w)
      PROVE  WaitInv'
    <2>1. SameWaits /\ \A v \in Workers : SameHolder(v)
        BY <1>5
        DEF FetchAddValidation, SameWaits, SameHolder, Holds, HeldTx, TypeOK
    <2> QED
        BY <1>5, <2>1, WaitFrame DEF FetchAddValidation
<1>6. ASSUME NEW w \in Workers, LockForValidation(w)
      PROVE  WaitInv'
    <2>1. SameWaits /\ \A v \in Workers : SameHolder(v)
        BY <1>6
        DEF LockForValidation, SameWaits, SameHolder, Holds, HeldTx, TypeOK
    <2> QED
        BY <1>6, <2>1, WaitFrame DEF LockForValidation
<1>7. ASSUME NEW w \in Workers, FetchAddExecution(w)
      PROVE  WaitInv'
    <2>1. SameWaits /\ \A v \in Workers : SameHolder(v)
        BY <1>7, ZenonT(60)
        DEF FetchAddExecution, SameWaits, SameHolder, Holds, HeldTx, TypeOK
    <2> QED
        BY <1>7, <2>1, WaitFrame DEF FetchAddExecution
<1>8. ASSUME NEW w \in Workers, LockForExecution(w)
      PROVE  WaitInv'
    <2>1. SameWaits /\ \A v \in Workers : SameHolder(v)
        BY <1>8
        DEF LockForExecution, SameWaits, SameHolder, Holds, HeldTx, TypeOK
    <2>2. \A t \in Txs : status[t] = "Aborting" => status'[t] = "Aborting"
        BY <1>8 DEF LockForExecution, TypeOK
    <2> QED
        BY <2>1, <2>2, WaitFrame
<1>9. ASSUME NEW w \in Workers, LockBlocking(w)
      PROVE  WaitInv'
    <2>1. SameWaits /\ \A v \in Workers : SameHolder(v)
        BY <1>9
        DEF LockBlocking, SameWaits, SameHolder, Holds, HeldTx, TypeOK
    <2> QED
        BY <1>9, <2>1, WaitFrame DEF LockBlocking
<1>10. ASSUME NEW w \in Workers, AbortSelf(w)
      PROVE  WaitInv'
    <2>1. CASE status[tx_idx[w]] = "Executing"
        <3>1. /\ SameWaits /\ HeldTx(w)' = tx_idx[w]
              /\ \A v \in Workers \ {w} : SameHolder(v)
            BY <1>10, <2>1 DEF AbortSelf, SameWaits, SameHolder, Holds, HeldTx, TypeOK
        <3> QED
            BY <1>10, <2>1, <3>1, WaitTake DEF AbortSelf
    <2>2. CASE status[tx_idx[w]] # "Executing"
        <3>1. SameWaits /\ status' = status /\ \A v \in Workers : SameHolder(v)
            BY <1>10, <2>2 DEF AbortSelf, SameWaits, SameHolder, Holds, HeldTx, TypeOK
        <3> QED
            BY <3>1, WaitFrame
    <2> QED
        BY <2>1, <2>2
<1>11. ASSUME NEW w \in Workers, PushDependent(w)
      PROVE  WaitInv'
    BY <1>11, PushWaits
<1>12. ASSUME NEW w \in Workers, CountDependency(w)
      PROVE  WaitInv'
    BY <1>12, CountWaits
<1>13. ASSUME NEW w \in Workers, SetExecuted(w)
      PROVE  WaitInv'
    <2>1. SameWaits /\ \A v \in Workers : SameHolder(v)
        BY <1>13
        DEF SetExecuted, SameWaits, SameHolder, Holds, HeldTx, TypeOK
    <2>2. \A t \in Txs : status[t] = "Aborting" => status'[t] = "Aborting"
        BY <1>13 DEF SetExecuted, TypeOK
    <2> QED
        BY <2>1, <2>2, WaitFrame
<1>14. ASSUME NEW w \in Workers, LockDependents(w)
      PROVE  WaitInv'
    <2>1. SameWaits /\ \A v \in Workers : SameHolder(v)
        BY <1>14
        DEF LockDependents, AfterDependent, SameWaits, SameHolder, Holds, HeldTx, TypeOK
    <2> QED
        BY <1>14, <2>1, WaitFrame DEF LockDependents
<1>15. ASSUME NEW w \in Workers, NEW d \in Txs, CountDownDependent(w, d)
      PROVE  WaitInv'
    BY <1>15, CountDownWaits
<1>16. ASSUME NEW w \in Workers, ResumeDependent(w)
      PROVE  WaitInv'
    <2>1. /\ Holds(w) /\ ~Holds(w)' /\ SameWaits
          /\ \A v \in Workers \ {w} : SameHolder(v)
        BY <1>16 DEF ResumeDependent, AfterDependent, SameWaits, SameHolder, Holds, HeldTx, TypeOK
    <2>2. \A t \in Txs : t # HeldTx(w) => status'[t] = status[t]
        BY <1>16 DEF ResumeDependent, SetReady, HeldTx, TypeOK
    <2> QED
        BY <2>1, <2>2, WaitRelease
<1>17. ASSUME NEW w \in Workers, LowerExecutionIdx(w)
      PROVE  WaitInv'
    <2>1. SameWaits /\ \A v \in Workers : SameHolder(v)
        BY <1>17
        DEF LowerExecutionIdx, SameWaits, SameHolder, Holds, HeldTx, TypeOK
    <2> QED
        BY <1>17, <2>1, WaitFrame DEF LowerExecutionIdx
<1>18. ASSUME NEW w \in Workers, LowerMinValidationIdx(w)
      PROVE  WaitInv'
    <2>1. SameWaits /\ \A v \in Workers : SameHolder(v)
        BY <1>18
        DEF LowerMinValidationIdx, SameWaits, SameHolder, Holds, HeldTx, TypeOK
    <2> QED
        BY <1>18, <2>1, WaitFrame DEF LowerMinValidationIdx
<1>19. ASSUME NEW w \in Workers, ValidateFromMin(w)
      PROVE  WaitInv'
    <2>1. SameWaits /\ \A v \in Workers : SameHolder(v)
        BY <1>19
        DEF ValidateFromMin, SameWaits, SameHolder, Holds, HeldTx, TypeOK
    <2> QED
        BY <1>19, <2>1, WaitFrame DEF ValidateFromMin
<1>20. ASSUME NEW w \in Workers, CheckValidationIdx(w)
      PROVE  WaitInv'
    <2>1. SameWaits /\ \A v \in Workers : SameHolder(v)
        BY <1>20
        DEF CheckValidationIdx, SameWaits, SameHolder, Holds, HeldTx, TypeOK
    <2> QED
        BY <1>20, <2>1, WaitFrame DEF CheckValidationIdx
<1>21. ASSUME NEW w \in Workers, ValidateFromNext(w)
      PROVE  WaitInv'
    <2>1. SameWaits /\ \A v \in Workers : SameHolder(v)
        BY <1>21
        DEF ValidateFromNext, SameWaits, SameHolder, Holds, HeldTx, TypeOK
    <2> QED
        BY <1>21, <2>1, WaitFrame DEF ValidateFromNext
<1>22. ASSUME NEW w \in Workers, TryValidationAbort(w)
      PROVE  WaitInv'
    <2>1. CASE Finished(tx_idx[w])
        <3>1. /\ SameWaits /\ HeldTx(w)' = tx_idx[w]
              /\ \A v \in Workers \ {w} : SameHolder(v)
            BY <1>22, <2>1 DEF TryValidationAbort, SameWaits, SameHolder, Holds, HeldTx, TypeOK
        <3> QED
            BY <1>22, <2>1, <3>1, WaitTake DEF TryValidationAbort, Finished
    <2>2. CASE ~Finished(tx_idx[w])
        <3>1. SameWaits /\ status' = status /\ \A v \in Workers : SameHolder(v)
            BY <1>22, <2>2 DEF TryValidationAbort, SameWaits, SameHolder, Holds, HeldTx, TypeOK
        <3> QED
            BY <3>1, WaitFrame
    <2> QED
        BY <2>1, <2>2
<1>23. ASSUME NEW w \in Workers, ReadyAborted(w)
      PROVE  WaitInv'
    <2>1. /\ Holds(w) /\ ~Holds(w)' /\ SameWaits
          /\ \A v \in Workers \ {w} : SameHolder(v)
        BY <1>23 DEF ReadyAborted, SameWaits, SameHolder, Holds, HeldTx, TypeOK
    <2>2. \A t \in Txs : t # HeldTx(w) => status'[t] = status[t]
        BY <1>23 DEF ReadyAborted, SetReady, HeldTx, TypeOK
    <2> QED
        BY <2>1, <2>2, WaitRelease
<1>24. ASSUME NEW w \in Workers, ValidateHigher(w)
      PROVE  WaitInv'
    <2>1. SameWaits /\ \A v \in Workers : SameHolder(v)
        BY <1>24
        DEF ValidateHigher, SameWaits, SameHolder, Holds, HeldTx, TypeOK
    <2> QED
        BY <1>24, <2>1, WaitFrame DEF ValidateHigher
<1>25. ASSUME NEW w \in Workers, CheckExecutionIdx(w)
      PROVE  WaitInv'
    <2>1. SameWaits /\ \A v \in Workers : SameHolder(v)
        BY <1>25
        DEF CheckExecutionIdx, SameWaits, SameHolder, Holds, HeldTx, TypeOK
    <2> QED
        BY <1>25, <2>1, WaitFrame DEF CheckExecutionIdx
<1>26. ASSUME NEW w \in Workers, MarkValidated(w)
      PROVE  WaitInv'
    <2>1. SameWaits /\ \A v \in Workers : SameHolder(v)
        BY <1>26
        DEF MarkValidated, SameWaits, SameHolder, Holds, HeldTx, TypeOK
    <2>2. \A t \in Txs : status[t] = "Aborting" => status'[t] = "Aborting"
        BY <1>26 DEF MarkValidated, TypeOK
    <2> QED
        BY <2>1, <2>2, WaitFrame
<1>27. ASSUME NEW w \in Workers, AfterTask(w)
      PROVE  WaitInv'
    <2>1. SameWaits /\ \A v \in Workers : SameHolder(v)
        BY <1>27
        DEF AfterTask, SameWaits, SameHolder, Holds, HeldTx, TypeOK
    <2> QED
        BY <1>27, <2>1, WaitFrame DEF AfterTask
<1>28. ASSUME NEW w \in Workers, NEW b \in Txs, VmReadError(w, b)
      PROVE  WaitInv'
    <2>1. SameWaits /\ \A v \in Workers : SameHolder(v)
        BY <1>28
        DEF VmReadError, SameWaits, SameHolder, Holds, HeldTx, TypeOK
    <2> QED
        BY <1>28, <2>1, WaitFrame DEF VmReadError
<1>29. ASSUME NEW w \in Workers, NEW wrote \in BOOLEAN,
             NEW next \in NextValidation(tx_idx[w]), VmOk(w, wrote, next)
      PROVE  WaitInv'
    <2>1. SameWaits /\ \A v \in Workers : SameHolder(v)
        BY <1>29
        DEF VmOk, SameWaits, SameHolder, Holds, HeldTx, TypeOK
    <2> QED
        BY <1>29, <2>1, WaitFrame DEF VmOk
<1>30. ASSUME NEW w \in Workers, VmExecutionError(w)
      PROVE  WaitInv'
    <2>1. SameWaits /\ \A v \in Workers : SameHolder(v)
        BY <1>30
        DEF VmExecutionError, SameWaits, SameHolder, Holds, HeldTx, TypeOK
    <2> QED
        BY <1>30, <2>1, WaitFrame DEF VmExecutionError
<1>31. ASSUME NEW w \in Workers, ReadSetValid(w)
      PROVE  WaitInv'
    <2>1. SameWaits /\ \A v \in Workers : SameHolder(v)
        BY <1>31
        DEF ReadSetValid, SameWaits, SameHolder, Holds, HeldTx, TypeOK
    <2> QED
        BY <1>31, <2>1, WaitFrame DEF ReadSetValid
<1>32. ASSUME NEW w \in Workers, ReadSetInvalid(w)
      PROVE  WaitInv'
    <2>1. SameWaits /\ \A v \in Workers : SameHolder(v)
        BY <1>32
        DEF ReadSetInvalid, SameWaits, SameHolder, Holds, HeldTx, TypeOK
    <2> QED
        BY <1>32, <2>1, WaitFrame DEF ReadSetInvalid
<1>33. ASSUME NEW w \in Workers, EstimatesWritten(w)
      PROVE  WaitInv'
    <2>1. SameWaits /\ \A v \in Workers : SameHolder(v)
        BY <1>33
        DEF EstimatesWritten, SameWaits, SameHolder, Holds, HeldTx, TypeOK
    <2> QED
        BY <1>33, <2>1, WaitFrame DEF EstimatesWritten
<1>34. ASSUME UNCHANGED vars PROVE WaitInv'
    <2>1. SameWaits /\ status' = status /\ \A v \in Workers : SameHolder(v)
        BY <1>34 DEF vars, SameWaits, SameHolder, Holds, HeldTx
    <2> QED
        BY <2>1, WaitFrame
<1> QED
    BY <1>1, <1>2, <1>3, <1>4, <1>5, <1>6, <1>7, <1>8, <1>9, <1>10, <1>11,
       <1>12, <1>13, <1>14, <1>15, <1>16, <1>17, <1>18, <1>19, <1>20, <1>21,
       <1>22, <1>23, <1>24, <1>25, <1>26, <1>27, <1>28, <1>29, <1>30, <1>31,
       <1>32, <1>33, <1>34, ZenonT(40)
    DEF Next, SchedulerStep, EnvironmentStep, Terminated

\* Preprocessing registers every transaction that it leaves Aborting.
LEMMA WaitInit == Init => WaitInv
<1> SUFFICES ASSUME Init PROVE WaitInv
    OBVIOUS
<1>1. \A t \in Txs : WaitsFor(t) = Dependencies[t]
    BY DependenciesAssumption DEF Init, WaitsFor
<1>2. \A t \in Txs : WaitsFor(t) # {} => status[t] = "Aborting"
    BY <1>1 DEF Init, Counted
<1>3. \A w \in Workers : ~Holds(w) /\ ~At(w, "count_dep")
    BY DEF Init, Holds, At
<1>4. \A t \in Txs \ Counted : WaitsForOne(t)
    BY <1>1 DEF Counted, WaitsForOne
<1>5. \A t \in Counted : t \in Txs /\ WaitsAsPreprocessed(t)
    BY <1>1, <1>3, ZenonT(40) DEF Init, Counted, WaitsAsPreprocessed
<1> QED
    BY <1>2, <1>3, <1>4, <1>5 DEF WaitInv

\* A worker at an unreachable!() would contradict ExecutorInv or WaitInv.
LEMMA NoPanicStep ==
    ASSUME TypeOK, ExecutorInv, WaitInv, NoPanic, [Next]_vars
    PROVE  NoPanic'
<1> USE DEF TypeOK, NoPanic
<1>1. ASSUME NEW w \in Workers, LoadExecutionIdx(w)
      PROVE  NoPanic'
    BY <1>1 DEF LoadExecutionIdx
<1>2. ASSUME NEW w \in Workers, LoadValidationIdx(w)
      PROVE  NoPanic'
    BY <1>2 DEF LoadValidationIdx
<1>3. ASSUME NEW w \in Workers, LoadNumValidated(w)
      PROVE  NoPanic'
    BY <1>3 DEF LoadNumValidated
<1>4. ASSUME NEW w \in Workers, LoadMinValidationIdx(w)
      PROVE  NoPanic'
    BY <1>4 DEF LoadMinValidationIdx
<1>5. ASSUME NEW w \in Workers, FetchAddValidation(w)
      PROVE  NoPanic'
    BY <1>5 DEF FetchAddValidation
<1>6. ASSUME NEW w \in Workers, LockForValidation(w)
      PROVE  NoPanic'
    BY <1>6 DEF LockForValidation
<1>7. ASSUME NEW w \in Workers, FetchAddExecution(w)
      PROVE  NoPanic'
    BY <1>7 DEF FetchAddExecution
<1>8. ASSUME NEW w \in Workers, LockForExecution(w)
      PROVE  NoPanic'
    BY <1>8 DEF LockForExecution
<1>9. ASSUME NEW w \in Workers, LockBlocking(w)
      PROVE  NoPanic'
    BY <1>9 DEF LockBlocking
<1>10. ASSUME NEW w \in Workers, AbortSelf(w)
      PROVE  NoPanic'
    BY <1>10 DEF AbortSelf, ExecutorInv, Runs
<1>11. ASSUME NEW w \in Workers, PushDependent(w)
      PROVE  NoPanic'
    BY <1>11 DEF PushDependent
<1>12. ASSUME NEW w \in Workers, CountDependency(w)
      PROVE  NoPanic'
    BY <1>12 DEF CountDependency
<1>13. ASSUME NEW w \in Workers, SetExecuted(w)
      PROVE  NoPanic'
    BY <1>13 DEF SetExecuted, ExecutorInv, Runs
<1>14. ASSUME NEW w \in Workers, LockDependents(w)
      PROVE  NoPanic'
    BY <1>14 DEF LockDependents, AfterDependent
<1>15. ASSUME NEW w \in Workers, NEW d \in Txs, CountDownDependent(w, d)
      PROVE  NoPanic'
    BY <1>15, ZenonT(40) DEF CountDownDependent, AfterDependent
<1>16. ASSUME NEW w \in Workers, ResumeDependent(w)
      PROVE  NoPanic'
    BY <1>16 DEF ResumeDependent, AfterDependent, WaitInv, Holds, HeldTx, HeldIsAborted
<1>17. ASSUME NEW w \in Workers, LowerExecutionIdx(w)
      PROVE  NoPanic'
    BY <1>17 DEF LowerExecutionIdx
<1>18. ASSUME NEW w \in Workers, LowerMinValidationIdx(w)
      PROVE  NoPanic'
    BY <1>18 DEF LowerMinValidationIdx
<1>19. ASSUME NEW w \in Workers, ValidateFromMin(w)
      PROVE  NoPanic'
    BY <1>19 DEF ValidateFromMin
<1>20. ASSUME NEW w \in Workers, CheckValidationIdx(w)
      PROVE  NoPanic'
    BY <1>20 DEF CheckValidationIdx
<1>21. ASSUME NEW w \in Workers, ValidateFromNext(w)
      PROVE  NoPanic'
    BY <1>21 DEF ValidateFromNext
<1>22. ASSUME NEW w \in Workers, TryValidationAbort(w)
      PROVE  NoPanic'
    BY <1>22, ZenonT(40) DEF TryValidationAbort
<1>23. ASSUME NEW w \in Workers, ReadyAborted(w)
      PROVE  NoPanic'
    BY <1>23 DEF ReadyAborted, WaitInv, Holds, HeldTx, HeldIsAborted
<1>24. ASSUME NEW w \in Workers, ValidateHigher(w)
      PROVE  NoPanic'
    BY <1>24 DEF ValidateHigher
<1>25. ASSUME NEW w \in Workers, CheckExecutionIdx(w)
      PROVE  NoPanic'
    BY <1>25 DEF CheckExecutionIdx
<1>26. ASSUME NEW w \in Workers, MarkValidated(w)
      PROVE  NoPanic'
    BY <1>26 DEF MarkValidated
<1>27. ASSUME NEW w \in Workers, AfterTask(w)
      PROVE  NoPanic'
    BY <1>27 DEF AfterTask
<1>28. ASSUME NEW w \in Workers, NEW b \in Txs, VmReadError(w, b)
      PROVE  NoPanic'
    BY <1>28 DEF VmReadError
<1>29. ASSUME NEW w \in Workers, NEW wrote \in BOOLEAN,
             NEW next \in NextValidation(tx_idx[w]), VmOk(w, wrote, next)
      PROVE  NoPanic'
    BY <1>29 DEF VmOk
<1>30. ASSUME NEW w \in Workers, ReadSetValid(w)
      PROVE  NoPanic'
    BY <1>30 DEF ReadSetValid
<1>31. ASSUME NEW w \in Workers, ReadSetInvalid(w)
      PROVE  NoPanic'
    BY <1>31 DEF ReadSetInvalid
<1>32. ASSUME NEW w \in Workers, EstimatesWritten(w)
      PROVE  NoPanic'
    BY <1>32 DEF EstimatesWritten
<1>33. ASSUME NEW w \in Workers, VmExecutionError(w)
      PROVE  NoPanic'
    BY <1>33 DEF VmExecutionError
<1>34. ASSUME UNCHANGED vars PROVE NoPanic'
    BY <1>34 DEF vars
<1> QED
    BY <1>1, <1>2, <1>3, <1>4, <1>5, <1>6, <1>7, <1>8, <1>9, <1>10, <1>11,
       <1>12, <1>13, <1>14, <1>15, <1>16, <1>17, <1>18, <1>19, <1>20, <1>21,
       <1>22, <1>23, <1>24, <1>25, <1>26, <1>27, <1>28, <1>29, <1>30, <1>31,
       <1>32, <1>33, <1>34, ZenonT(60)
    DEF Next, SchedulerStep, EnvironmentStep, Terminated

\* No worker ever reaches one of the unreachable!() of the scheduler, for any
\* number of workers and transactions, any preprocessed dependencies and
\* whichever transactions the EVM rejects.
THEOREM NoPanicCorrect == Spec => []NoPanic
<1> DEFINE I == /\ TypeOK /\ NumValidatedExact /\ ExecutorInv /\ WaitInv
                /\ NoPanic
<1>1. Init => I
    <2>1. Init => ExecutorInv /\ NoPanic
        BY DEF Init, ExecutorInv, SingleExecutor, Runs, NoPanic
    <2> QED
        BY <2>1, TypeInit, NumValidatedInit, WaitInit
<1>2. I /\ [Next]_vars => I'
    BY TypeStep, NumValidatedStep, ExecutorStep, WaitStep, NoPanicStep
<1> QED
    BY <1>1, <1>2, PTL DEF Spec

\* An aborted transaction is always registered as a dependent or in the hands
\* of one worker, never both, so it is resumed once: the bookkeeping of
\* add_dependency and finish_execution agrees although the counter of
\* dependencies is incremented after the dependent is registered.
THEOREM WaitCorrect == Spec => []WaitInv
<1> DEFINE I == TypeOK /\ NumValidatedExact /\ WaitInv
<1>1. Init => I
    BY TypeInit, NumValidatedInit, WaitInit
<1>2. I /\ [Next]_vars => I'
    BY TypeStep, NumValidatedStep, WaitStep
<1> QED
    BY <1>1, <1>2, PTL DEF Spec

-----------------------------------------------------------------------------
(***************************************************************************)
(* The counters of preprocessed dependencies, and who will resume a        *)
(* transaction that waits.                                                 *)
(***************************************************************************)

\* Only these steps enter or stay in add_dependency before the registration.
LEMMA BlockedSteps ==
    ASSUME TypeOK, NEW w \in Workers, SchedulerStep(w) \/ EnvironmentStep(w),
           pc'[w] \in {"add_dep", "abort_self", "push_dep"}
    PROVE  \/ \E b \in Txs : b < tx_idx[w] /\ VmReadError(w, b)
           \/ LockBlocking(w) \/ AbortSelf(w)
<1>1. pc \in [Workers -> Labels]
    BY DEF TypeOK
<1>2. CASE \/ LoadExecutionIdx(w) \/ LoadValidationIdx(w) \/ LoadNumValidated(w)
           \/ LoadMinValidationIdx(w) \/ FetchAddValidation(w)
           \/ LockForValidation(w) \/ FetchAddExecution(w) \/ LockForExecution(w)
    BY <1>1, <1>2, ZenonT(60) DEF LoadExecutionIdx, LoadValidationIdx,
       LoadNumValidated, LoadMinValidationIdx, FetchAddValidation,
       LockForValidation, FetchAddExecution, LockForExecution
<1>3. CASE \/ PushDependent(w) \/ CountDependency(w) \/ SetExecuted(w)
           \/ LockDependents(w) \/ ResumeDependent(w) \/ LowerExecutionIdx(w)
           \/ LowerMinValidationIdx(w)
    BY <1>1, <1>3, ZenonT(60) DEF PushDependent, CountDependency, SetExecuted,
       LockDependents, AfterDependent, ResumeDependent, LowerExecutionIdx,
       LowerMinValidationIdx
<1>4. CASE \E d \in Txs : CountDownDependent(w, d)
    BY <1>1, <1>4, ZenonT(40) DEF CountDownDependent, AfterDependent
<1>5. CASE \/ ValidateFromMin(w) \/ CheckValidationIdx(w) \/ ValidateFromNext(w)
           \/ TryValidationAbort(w) \/ ReadyAborted(w) \/ ValidateHigher(w)
           \/ CheckExecutionIdx(w) \/ MarkValidated(w) \/ AfterTask(w)
    BY <1>1, <1>5, ZenonT(60) DEF ValidateFromMin, CheckValidationIdx,
       ValidateFromNext, TryValidationAbort, ReadyAborted, ValidateHigher,
       CheckExecutionIdx, MarkValidated, AfterTask
<1>6. CASE EnvironmentStep(w)
    BY <1>1, <1>6, ZenonT(40) DEF EnvironmentStep, VmOk, VmExecutionError,
       ReadSetValid, ReadSetInvalid, EstimatesWritten
<1> QED
    BY <1>2, <1>3, <1>4, <1>5, <1>6, ZenonT(40) DEF SchedulerStep

\* Only these steps change a list of dependents or a counter.
DepAction(w) == \/ PushDependent(w) \/ CountDependency(w)
                \/ \E d \in Txs : CountDownDependent(w, d)

\* Any other step leaves them alone.
LEMMA DepSteps ==
    ASSUME NEW w \in Workers, SchedulerStep(w) \/ EnvironmentStep(w)
    PROVE  UNCHANGED depVars \/ DepAction(w)
<1>1. CASE SchedulerStep(w)
    BY <1>1, ZenonT(60) DEF SchedulerStep, DepAction, LoadExecutionIdx,
       LoadValidationIdx, LoadNumValidated, LoadMinValidationIdx,
       FetchAddValidation, LockForValidation, FetchAddExecution,
       LockForExecution, LockBlocking, AbortSelf, SetExecuted, LockDependents,
       ResumeDependent, LowerExecutionIdx, LowerMinValidationIdx,
       ValidateFromMin, CheckValidationIdx, ValidateFromNext,
       TryValidationAbort, ReadyAborted, ValidateHigher, CheckExecutionIdx,
       MarkValidated, AfterTask
<1>2. CASE EnvironmentStep(w)
    BY <1>2, ZenonT(40) DEF EnvironmentStep, VmReadError, VmOk,
       VmExecutionError, ReadSetValid, ReadSetInvalid, EstimatesWritten
<1> QED
    BY <1>1, <1>2

\* While a worker holds the blocking status, that transaction cannot finish.
LEMMA BlockedStep ==
    ASSUME TypeOK, BlockedInv, NEW w \in Workers,
           SchedulerStep(w) \/ EnvironmentStep(w)
    PROVE  BlockedInv'
<1>1. Alone(w) /\ [Next]_vars
    BY OneWorker DEF Next
<1>2. ASSUME NEW v \in Workers, NEW b \in Txs, b = reg[v], ~Finished(b),
             pc[v] \in {"abort_self", "push_dep"}
      PROVE  ~Finished(b)'
    <2>1. StatusLocked(b)
        BY <1>2 DEF StatusLocked
    <2>2. ASSUME Finished(b)' PROVE FALSE
        <3>1. PICK u \in Workers : SetExecuted(u) /\ tx_idx[u] = b
            BY <1>1, <1>2, <2>2, FinishSteps
        <3> QED
            BY <2>1, <3>1 DEF SetExecuted
    <2> QED
        BY <2>2
<1>3. ASSUME NEW v \in Workers, pc'[v] \in {"abort_self", "push_dep"}
      PROVE  ~Finished(reg[v])'
    <2>1. CASE v # w \/ AbortSelf(w)
        <3>1. pc[v] \in {"abort_self", "push_dep"} /\ reg'[v] = reg[v]
            BY <1>1, <1>3, <2>1 DEF Alone, AbortSelf
        <3>2. reg[v] \in Txs /\ ~Finished(reg[v])
            BY <3>1 DEF BlockedInv
        <3> QED
            BY <1>2, <3>1, <3>2 DEF Finished
    <2>2. CASE v = w /\ LockBlocking(w)
        BY <1>3, <2>2 DEF LockBlocking, Finished, TypeOK
    <2>3. CASE v = w /\ \E b \in Txs : VmReadError(w, b)
        BY <1>3, <2>3 DEF VmReadError, TypeOK
    <2> QED
        BY <1>3, <2>1, <2>2, <2>3, BlockedSteps
<1>4. ASSUME NEW v \in Workers, pc'[v] \in {"add_dep", "abort_self", "push_dep"}
      PROVE  reg'[v] \in Txs /\ reg'[v] < tx_idx'[v]
    <2>1. CASE v # w \/ AbortSelf(w) \/ LockBlocking(w)
        <3>1. /\ pc[v] \in {"add_dep", "abort_self", "push_dep"}
              /\ reg'[v] = reg[v] /\ tx_idx'[v] = tx_idx[v]
            BY <1>1, <1>4, <2>1 DEF Alone, AbortSelf, LockBlocking, TypeOK
        <3> QED
            BY <3>1 DEF BlockedInv
    <2>2. CASE v = w /\ \E b \in Txs : b < tx_idx[w] /\ VmReadError(w, b)
        BY <2>2 DEF VmReadError, TypeOK
    <2> QED
        BY <1>4, <2>1, <2>2, BlockedSteps
<1>5. \A b \in Txs : \A t \in transactions_dependents'[b] : b < t
    <2>1. CASE UNCHANGED depVars \/ CountDependency(w)
        BY <2>1 DEF BlockedInv, CountDependency
    <2>2. CASE PushDependent(w)
        BY <2>2, SMTT(30) DEF BlockedInv, PushDependent, TypeOK
    <2>3. CASE \E d \in Txs : CountDownDependent(w, d)
        BY <2>3, SMTT(30) DEF BlockedInv, CountDownDependent, TypeOK
    <2> QED
        BY <2>1, <2>2, <2>3, DepSteps DEF DepAction
<1> QED
    BY <1>3, <1>4, <1>5 DEF BlockedInv

\* Only add_dependency is about to count a dependency.
LEMMA CountSteps ==
    ASSUME TypeOK, NEW w \in Workers, SchedulerStep(w) \/ EnvironmentStep(w),
           pc[w] = "count_dep" \/ pc'[w] = "count_dep"
    PROVE  PushDependent(w) \/ CountDependency(w)
<1>1. pc \in [Workers -> Labels]
    BY DEF TypeOK
<1>2. CASE \/ LoadExecutionIdx(w) \/ LoadValidationIdx(w) \/ LoadNumValidated(w)
           \/ LoadMinValidationIdx(w) \/ FetchAddValidation(w)
           \/ LockForValidation(w) \/ FetchAddExecution(w) \/ LockForExecution(w)
           \/ LockBlocking(w) \/ AbortSelf(w)
    BY <1>1, <1>2, ZenonT(60) DEF LoadExecutionIdx, LoadValidationIdx,
       LoadNumValidated, LoadMinValidationIdx, FetchAddValidation,
       LockForValidation, FetchAddExecution, LockForExecution, LockBlocking,
       AbortSelf
<1>3. CASE \/ SetExecuted(w) \/ LockDependents(w) \/ ResumeDependent(w)
           \/ LowerExecutionIdx(w) \/ LowerMinValidationIdx(w)
    BY <1>1, <1>3, ZenonT(60) DEF SetExecuted, LockDependents, AfterDependent,
       ResumeDependent, LowerExecutionIdx, LowerMinValidationIdx
<1>4. CASE \E d \in Txs : CountDownDependent(w, d)
    BY <1>1, <1>4, ZenonT(40) DEF CountDownDependent, AfterDependent
<1>5. CASE \/ ValidateFromMin(w) \/ CheckValidationIdx(w) \/ ValidateFromNext(w)
           \/ TryValidationAbort(w) \/ ReadyAborted(w) \/ ValidateHigher(w)
           \/ CheckExecutionIdx(w) \/ MarkValidated(w) \/ AfterTask(w)
    BY <1>1, <1>5, ZenonT(60) DEF ValidateFromMin, CheckValidationIdx,
       ValidateFromNext, TryValidationAbort, ReadyAborted, ValidateHigher,
       CheckExecutionIdx, MarkValidated, AfterTask
<1>6. CASE EnvironmentStep(w)
    BY <1>1, <1>6, ZenonT(40) DEF EnvironmentStep, VmReadError, VmOk,
       VmExecutionError, ReadSetValid, ReadSetInvalid, EstimatesWritten
<1> QED
    BY <1>2, <1>3, <1>4, <1>5, <1>6, ZenonT(40) DEF SchedulerStep

\* The sets that the invariant counts are finite, and smaller than the width
\* of the counters.
LEMMA CountingFacts ==
    ASSUME NEW t \in Txs
    PROVE  /\ IsFiniteSet(WaitsFor(t)) /\ Cardinality(WaitsFor(t)) \in Nat
           /\ Cardinality(WaitsFor(t)) + 1 < UsizeMod
           /\ IsFiniteSet(Counting(t)) /\ Cardinality(Counting(t)) \in Nat
           /\ Cardinality(Counting(t)) < UsizeMod
<1>1. IsFiniteSet(Txs) /\ Cardinality(Txs) = BlockSize
    BY BlockSizeAssumption, FS_Interval, SMTT(30) DEF Txs
<1>2. WaitsFor(t) \subseteq Txs /\ Counting(t) \subseteq Workers
    BY DEF WaitsFor, Counting
<1>3. /\ IsFiniteSet(WaitsFor(t)) /\ Cardinality(WaitsFor(t)) <= Cardinality(Txs)
      /\ IsFiniteSet(Counting(t)) /\ Cardinality(Counting(t)) <= Cardinality(Workers)
    BY <1>1, <1>2, BoundsAssumption, FS_Subset, ZenonT(40)
<1>4. /\ Cardinality(WaitsFor(t)) \in Nat /\ Cardinality(Counting(t)) \in Nat
      /\ Cardinality(Workers) \in Nat
    BY <1>3, BoundsAssumption, FS_CardinalityType
<1> QED
    BY <1>1, <1>3, <1>4, BoundsAssumption, BlockSizeAssumption, SMTT(30)

\* fetch_add wraps at the width of the counter.
LEMMA WrapUp ==
    ASSUME NEW n \in 0 .. (UsizeMod - 1)
    PROVE  (n + 1) % UsizeMod = IF n + 1 = UsizeMod THEN 0 ELSE n + 1
<1>1. UsizeMod \in Nat /\ UsizeMod > 0
    BY BoundsAssumption, BlockSizeAssumption, SMTT(30)
<1>2. CASE n + 1 = UsizeMod
    <2>1. UsizeMod % UsizeMod = 0
        BY <1>1, SMTT(30)
    <2> QED
        BY <1>2, <2>1
<1>3. CASE n + 1 # UsizeMod
    BY <1>1, <1>3, SMTT(30)
<1> QED
    BY <1>2, <1>3

\* fetch_sub wraps below zero.
LEMMA WrapDownAny ==
    ASSUME NEW n \in 0 .. (UsizeMod - 1)
    PROVE  (n + UsizeMod - 1) % UsizeMod = IF n = 0 THEN UsizeMod - 1 ELSE n - 1
<1>1. UsizeMod \in Nat /\ UsizeMod > 0
    BY BoundsAssumption, BlockSizeAssumption, SMTT(30)
<1>2. CASE n = 0
    BY <1>1, <1>2, SMTT(30)
<1>3. CASE n # 0
    BY <1>3, CountDown, SMTT(30)
<1> QED
    BY <1>2, <1>3

\* Registering, counting and resuming keep the counter and the lists in step.
LEMMA CounterStep ==
    ASSUME TypeOK, WaitInv, BlockedInv, CounterInv, NEW w \in Workers,
           SchedulerStep(w) \/ EnvironmentStep(w)
    PROVE  CounterInv'
<1> DEFINE c == transactions_dependencies_num
           W(t) == Cardinality(WaitsFor(t))
           K(t) == Cardinality(Counting(t))
<1>1. SUFFICES ASSUME NEW t \in Counted
               PROVE  \E wraps \in {0, UsizeMod} : c'[t] + K(t)' = W(t)' + wraps
    BY DEF CounterInv
<1>2. /\ t \in Txs /\ c[t] \in 0 .. (UsizeMod - 1) /\ UsizeMod \in Nat
      /\ Alone(w) /\ tx_idx[w] \in Txs
    BY OneWorker, BoundsAssumption DEF Counted, TypeOK
<1>3. PICK wraps \in {0, UsizeMod} : c[t] + K(t) = W(t) + wraps
    BY DEF CounterInv
<1>4. /\ IsFiniteSet(WaitsFor(t)) /\ W(t) \in Nat /\ W(t) + 1 < UsizeMod
      /\ IsFiniteSet(Counting(t)) /\ K(t) \in Nat /\ K(t) < UsizeMod
    BY <1>2, CountingFacts
<1>5. CASE PushDependent(w)
    <2>1. /\ c' = c /\ tx_idx' = tx_idx /\ pc[w] = "push_dep"
          /\ reg[w] \in Txs /\ WaitsFor(tx_idx[w]) = {}
        BY <1>5 DEF PushDependent, BlockedInv, WaitInv, Holds, HeldTx, HeldIsAborted
    <2>2. CASE t # tx_idx[w]
        <3>1. WaitsFor(t)' = WaitsFor(t)
            BY <1>2, <1>5, <2>2 DEF PushDependent, WaitsFor, TypeOK
        <3>2. Counting(t)' = Counting(t)
            BY <1>2, <2>1, <2>2 DEF Counting, Alone
        <3> QED
            BY <1>3, <2>1, <3>1, <3>2
    <2>3. CASE t = tx_idx[w]
        <3>1. WaitsFor(t)' = {reg[w]} /\ WaitsFor(t) = {}
            BY <1>2, <1>5, <2>1, <2>3 DEF PushDependent, WaitsFor, TypeOK
        <3>2. W(t) = 0 /\ W(t)' = 1
            BY <3>1, FS_EmptySet, FS_Singleton
        <3>3. pc'[w] = "count_dep"
            BY <1>5, <2>3 DEF PushDependent, TypeOK
        <3>4. Counting(t)' = Counting(t) \cup {w} /\ w \notin Counting(t)
            BY <1>2, <2>1, <2>3, <3>3 DEF Counting, Alone
        <3>5. K(t)' = K(t) + 1
            BY <1>4, <3>4, FS_AddElement
        <3> QED
            BY <1>2, <1>3, <1>4, <2>1, <3>2, <3>5, SMTT(30)
    <2> QED
        BY <2>2, <2>3
<1>6. CASE CountDependency(w)
    <2>1. /\ transactions_dependents' = transactions_dependents
          /\ tx_idx' = tx_idx /\ pc[w] = "count_dep" /\ pc'[w] # "count_dep"
          /\ c' = [c EXCEPT ![tx_idx[w]] = (@ + 1) % UsizeMod]
        BY <1>6 DEF CountDependency, TypeOK
    <2>2. WaitsFor(t)' = WaitsFor(t)
        BY <2>1 DEF WaitsFor
    <2>3. CASE t # tx_idx[w]
        <3>1. Counting(t)' = Counting(t)
            BY <1>2, <2>1, <2>3 DEF Counting, Alone
        <3>2. c'[t] = c[t]
            BY <2>1, <2>3 DEF TypeOK
        <3> QED
            BY <1>3, <2>2, <3>1, <3>2
    <2>4. CASE t = tx_idx[w]
        <3>1. Counting(t)' = Counting(t) \ {w} /\ w \in Counting(t)
            BY <1>2, <2>1, <2>4 DEF Counting, Alone
        <3>2. K(t)' = K(t) - 1 /\ K(t) > 0
            <4>1. Cardinality(Counting(t) \ {w}) = K(t) - 1
                BY <1>4, <3>1, FS_RemoveElement, ZenonT(40)
            <4>2. K(t) # 0
                BY <1>4, <3>1, FS_EmptySet, ZenonT(40)
            <4> QED
                BY <1>4, <3>1, <4>1, <4>2, SMTT(30)
        <3>3. c'[t] = IF c[t] + 1 = UsizeMod THEN 0 ELSE c[t] + 1
            BY <1>2, <2>1, <2>4, WrapUp DEF TypeOK
        <3>4. W(t)' = W(t)
            BY <2>2
        <3> HIDE DEF c, W, K
        <3> QED
            BY <1>2, <1>3, <1>4, <3>2, <3>3, <3>4, SMTT(30)
    <2> QED
        BY <2>3, <2>4
<1>7. ASSUME NEW d \in Txs, CountDownDependent(w, d)
      PROVE  \E x \in {0, UsizeMod} : c'[t] + K(t)' = W(t)' + x
    <2>1. /\ tx_idx' = tx_idx /\ pc[w] = "resume"
          /\ tx_idx[w] \in WaitsFor(d)
        BY <1>2, <1>7 DEF CountDownDependent, WaitsFor
    <2>2. Counting(t)' = Counting(t)
        <3>1. pc'[w] # "count_dep"
            BY <1>7 DEF CountDownDependent, AfterDependent, TypeOK
        <3> QED
            BY <1>2, <2>1, <3>1 DEF Counting, Alone
    <2>3. CASE t # d
        <3>1. WaitsFor(t)' = WaitsFor(t)
            BY <1>2, <1>7, <2>3 DEF CountDownDependent, WaitsFor, TypeOK
        <3>2. c'[t] = c[t]
            BY <1>7, <2>3 DEF CountDownDependent, TypeOK
        <3> QED
            BY <1>3, <2>2, <3>1, <3>2
    <2>4. CASE t = d
        <3>1. WaitsFor(t)' = WaitsFor(t) \ {tx_idx[w]}
            BY <1>2, <1>7, <2>4 DEF CountDownDependent, WaitsFor, TypeOK
        <3>2. W(t)' = W(t) - 1 /\ W(t) > 0
            <4>1. Cardinality(WaitsFor(t) \ {tx_idx[w]}) = W(t) - 1
                BY <1>4, <2>1, <2>4, FS_RemoveElement, ZenonT(40)
            <4>2. W(t) # 0
                BY <1>4, <2>1, <2>4, FS_EmptySet, ZenonT(40)
            <4> QED
                BY <1>4, <3>1, <4>1, <4>2, SMTT(30)
        <3>3. c'[t] = IF c[t] = 0 THEN UsizeMod - 1 ELSE c[t] - 1
            <4>1. c'[t] = (c[t] + UsizeMod - 1) % UsizeMod
                BY <1>7, <2>4 DEF CountDownDependent, TypeOK
            <4> QED
                BY <1>2, <4>1, WrapDownAny
        <3>4. K(t)' = K(t)
            BY <2>2
        <3> HIDE DEF c, W, K
        <3> QED
            BY <1>2, <1>3, <1>4, <3>2, <3>3, <3>4, SMTT(30)
    <2> QED
        BY <2>3, <2>4
<1>8. CASE UNCHANGED depVars /\ ~DepAction(w)
    <2>1. WaitsFor(t)' = WaitsFor(t) /\ c' = c
        BY <1>8 DEF WaitsFor
    <2>2. pc[w] # "count_dep" /\ pc'[w] # "count_dep"
        BY <1>8, CountSteps DEF DepAction
    <2>3. Counting(t)' = Counting(t)
        BY <1>2, <2>2 DEF Counting, Alone
    <2> QED
        BY <1>3, <2>1, <2>3
<1> QED
    BY <1>5, <1>6, <1>7, <1>8, DepSteps DEF DepAction

-----------------------------------------------------------------------------
\* Only these steps let go of an aborted transaction.
LEMMA HoldSteps ==
    ASSUME TypeOK, NEW w \in Workers, SchedulerStep(w) \/ EnvironmentStep(w),
           Holds(w)
    PROVE  \/ PushDependent(w) \/ ResumeDependent(w) \/ ReadyAborted(w)
           \/ Holds(w)' /\ HeldTx(w)' = HeldTx(w)
<1>1. pc[w] \in {"push_dep", "resume_ready", "estimate", "ready_aborted"}
    BY DEF Holds
<1>2. CASE SchedulerStep(w)
    <2>1. ~(\/ LoadExecutionIdx(w) \/ LoadValidationIdx(w) \/ LoadNumValidated(w)
            \/ LoadMinValidationIdx(w) \/ FetchAddValidation(w)
            \/ LockForValidation(w) \/ FetchAddExecution(w)
            \/ LockForExecution(w) \/ LockBlocking(w) \/ AbortSelf(w)
            \/ CountDependency(w) \/ SetExecuted(w) \/ LockDependents(w)
            \/ \E d \in Txs : CountDownDependent(w, d))
        BY <1>1 DEF LoadExecutionIdx, LoadValidationIdx,
           LoadNumValidated, LoadMinValidationIdx, FetchAddValidation,
           LockForValidation, FetchAddExecution, LockForExecution, LockBlocking,
           AbortSelf, CountDependency, SetExecuted, LockDependents,
           CountDownDependent
    <2>2. ~(\/ LowerExecutionIdx(w) \/ LowerMinValidationIdx(w)
            \/ ValidateFromMin(w) \/ CheckValidationIdx(w) \/ ValidateFromNext(w)
            \/ TryValidationAbort(w) \/ ValidateHigher(w) \/ CheckExecutionIdx(w)
            \/ MarkValidated(w) \/ AfterTask(w))
        BY <1>1 DEF LowerExecutionIdx, LowerMinValidationIdx, ValidateFromMin,
           CheckValidationIdx, ValidateFromNext, TryValidationAbort,
           ValidateHigher, CheckExecutionIdx, MarkValidated, AfterTask
    <2> QED
        BY <1>2, <2>1, <2>2, ZenonT(40) DEF SchedulerStep
<1>3. CASE EnvironmentStep(w)
    <2>1. EstimatesWritten(w)
        BY <1>1, <1>3 DEF EnvironmentStep, VmReadError, VmOk,
           VmExecutionError, ReadSetValid, ReadSetInvalid
    <2> QED
        BY <2>1 DEF EstimatesWritten, Holds, HeldTx, TypeOK
<1> QED
    BY <1>2, <1>3

\* A transaction that becomes Aborting is in the hands of a worker.
LEMMA AbortSteps ==
    ASSUME TypeOK, [Next]_vars, NEW t \in Txs,
           status[t] # "Aborting", status'[t] = "Aborting"
    PROVE  \E w \in Workers : Holds(w)' /\ HeldTx(w)' = t
<1>1. PICK w \in Workers : StatusAction(w)
    BY StatusSteps
<1> USE DEF TypeOK, Finished
<1>2. CASE LockForExecution(w)
    BY <1>2 DEF LockForExecution
<1>3. CASE AbortSelf(w)
    BY <1>3 DEF AbortSelf, Holds, HeldTx
<1>4. CASE SetExecuted(w)
    BY <1>4 DEF SetExecuted
<1>5. CASE ResumeDependent(w)
    BY <1>5, SMTT(30) DEF ResumeDependent, SetReady
<1>6. CASE TryValidationAbort(w)
    BY <1>6 DEF TryValidationAbort, Holds, HeldTx
<1>7. CASE ReadyAborted(w)
    BY <1>7 DEF ReadyAborted, SetReady
<1>8. CASE MarkValidated(w)
    BY <1>8 DEF MarkValidated
<1> QED
    BY <1>1, <1>2, <1>3, <1>4, <1>5, <1>6, <1>7, <1>8 DEF StatusAction

\* Two workers cannot both be late to count a dependency of d while a third one
\* resumes d: a dependent passed over has another transaction to wait for.
LEMMA PassedOver ==
    ASSUME TypeOK, WaitInv, CounterInv, NEW w \in Workers, NEW d \in Txs,
           CountDownDependent(w, d), Pending(d),
           Cardinality(Workers) <= 2
    PROVE  WaitsFor(d)' # {}
<1> DEFINE c == transactions_dependencies_num[d]
           W == Cardinality(WaitsFor(d))
           K == Cardinality(Counting(d))
           b == tx_idx[w]
<1>1. /\ d \in Counted /\ c > 1 /\ c \in 0 .. (UsizeMod - 1) /\ UsizeMod \in Nat
    BY BoundsAssumption DEF TypeOK
<1>2. /\ b \in WaitsFor(d) /\ WaitsFor(d)' = WaitsFor(d) \ {b}
    BY DEF CountDownDependent, WaitsFor, TypeOK
<1>3. /\ IsFiniteSet(WaitsFor(d)) /\ W \in Nat /\ IsFiniteSet(Counting(d)) /\ K \in Nat
    BY CountingFacts
<1>4. CASE WaitsAsPreprocessed(d)
    <2>1. W > 1
        BY <1>1, <1>4 DEF WaitsAsPreprocessed
    <2>2. Cardinality(WaitsFor(d) \ {b}) = W - 1
        BY <1>2, <1>3, FS_RemoveElement, ZenonT(40)
    <2>3. WaitsFor(d) \ {b} # {}
        BY <1>3, <2>1, <2>2, FS_EmptySet, SMTT(30)
    <2> QED
        BY <1>2, <2>3
<1>5. CASE WaitsForOne(d)
    <2>1. WaitsFor(d) = {b}
        BY <1>2, <1>5 DEF WaitsForOne
    <2>2. W = 1
        BY <2>1, FS_Singleton
    <2>3. Counting(d) \subseteq Workers \ {w}
        BY DEF Counting, CountDownDependent
    <2>4. /\ IsFiniteSet(Workers \ {w})
          /\ Cardinality(Workers \ {w}) = Cardinality(Workers) - 1
        BY BoundsAssumption, FS_RemoveElement, ZenonT(40)
    <2>5. K <= Cardinality(Workers \ {w})
        BY <2>3, <2>4, FS_Subset, ZenonT(40)
    <2>6. Cardinality(Workers) \in Nat
        BY BoundsAssumption, FS_CardinalityType
    <2>7. K <= 1
        BY <1>3, <2>4, <2>5, <2>6, SMTT(30)
    <2>8. PICK wraps \in {0, UsizeMod} : c + K = W + wraps
        BY <1>1 DEF CounterInv
    <2> QED
        BY <1>1, <1>3, <2>2, <2>7, <2>8, SMTT(30)
<1> QED
    BY <1>4, <1>5 DEF WaitInv

\* With two workers, or no preprocessed dependency, no step forgets an aborted
\* transaction.
LEMMA ForgottenStep ==
    ASSUME TypeOK, WaitInv, BlockedInv, CounterInv, NoneForgotten,
           Counted = {} \/ Cardinality(Workers) <= 2,
           NEW w \in Workers, SchedulerStep(w) \/ EnvironmentStep(w)
    PROVE  NoneForgotten'
<1>1. Alone(w) /\ [Next]_vars
    BY OneWorker DEF Next
<1>2. SUFFICES ASSUME NEW t \in Txs, status[t] = "Aborting", status'[t] = "Aborting"
               PROVE  \/ WaitsFor(t)' # {}
                      \/ \E v \in Workers : Holds(v)' /\ HeldTx(v)' = t
    BY <1>1, AbortSteps DEF NoneForgotten
<1>3. ASSUME NEW v \in Workers \ {w}, Holds(v), HeldTx(v) = t
      PROVE  Holds(v)' /\ HeldTx(v)' = t
    BY <1>1, <1>3 DEF Alone, Holds, HeldTx
<1>4. ASSUME Holds(w), HeldTx(w) = t
      PROVE  WaitsFor(t)' # {} \/ (Holds(w)' /\ HeldTx(w)' = t)
    <2>1. CASE PushDependent(w)
        <3>1. reg[w] \in Txs /\ tx_idx[w] = t
            BY <1>4, <2>1 DEF PushDependent, BlockedInv, HeldTx
        <3> QED
            BY <2>1, <3>1 DEF PushDependent, WaitsFor, TypeOK
    <2>2. CASE ResumeDependent(w)
        BY <1>2, <1>4, <2>2 DEF ResumeDependent, SetReady, HeldTx, TypeOK
    <2>3. CASE ReadyAborted(w)
        BY <1>2, <1>4, <2>3 DEF ReadyAborted, SetReady, HeldTx, TypeOK
    <2> QED
        BY <1>4, <2>1, <2>2, <2>3, HoldSteps
<1>5. ASSUME WaitsFor(t) # {}
      PROVE  WaitsFor(t)' # {} \/ (Holds(w)' /\ HeldTx(w)' = t)
    <2>1. CASE UNCHANGED depVars \/ CountDependency(w)
        BY <1>5, <2>1 DEF WaitsFor, CountDependency
    <2>2. CASE PushDependent(w)
        BY <1>5, <2>2 DEF PushDependent, WaitsFor, TypeOK
    <2>3. ASSUME NEW d \in Txs, CountDownDependent(w, d)
          PROVE  WaitsFor(t)' # {} \/ (Holds(w)' /\ HeldTx(w)' = t)
        <3>1. CASE d # t
            BY <1>5, <2>3, <3>1 DEF CountDownDependent, WaitsFor, TypeOK
        <3>2. CASE d = t /\ Pending(d)
            BY <2>3, <3>2, PassedOver
        <3>3. CASE d = t /\ ~Pending(d)
            BY <2>3, <3>3 DEF CountDownDependent, Holds, HeldTx, TypeOK
        <3> QED
            BY <3>1, <3>2, <3>3
    <2> QED
        BY <2>1, <2>2, <2>3, DepSteps DEF DepAction
<1> QED
    BY <1>2, <1>3, <1>4, <1>5 DEF NoneForgotten

\* What holds at first: the preprocessed dependencies are registered and
\* counted, and are of lower transactions.
LEMMA CounterInit == Init => BlockedInv /\ CounterInv /\ NoneForgotten
<1> SUFFICES ASSUME Init PROVE BlockedInv /\ CounterInv /\ NoneForgotten
    OBVIOUS
<1>1. \A t \in Txs : WaitsFor(t) = Dependencies[t]
    BY DependenciesAssumption DEF Init, WaitsFor
<1>2. BlockedInv
    BY DependenciesAssumption DEF Init, BlockedInv
<1>3. ASSUME NEW t \in Counted
      PROVE  transactions_dependencies_num[t] + Cardinality(Counting(t))
                 = Cardinality(WaitsFor(t)) + 0
    <2>1. Counting(t) = {}
        BY DEF Init, Counting
    <2>2. t \in Txs /\ Cardinality(WaitsFor(t)) \in Nat
        BY CountingFacts DEF Counted
    <2>3. transactions_dependencies_num[t] = Cardinality(WaitsFor(t))
        BY <1>1, <2>2 DEF Init
    <2> QED
        BY <2>1, <2>2, <2>3, FS_EmptySet
<1>4. NoneForgotten
    BY <1>1 DEF Init, NoneForgotten, Counted
<1> QED
    BY <1>2, <1>3, <1>4 DEF CounterInv

\* The invariants of this module, kept by any step.
LEMMA CounterNext ==
    ASSUME TypeOK, WaitInv, BlockedInv, CounterInv, [Next]_vars
    PROVE  /\ BlockedInv' /\ CounterInv'
           /\ (Counted = {} \/ Cardinality(Workers) <= 2) /\ NoneForgotten
                  => NoneForgotten'
<1>1. CASE UNCHANGED vars
    <2>1. /\ \A t \in Txs : Finished(t)' = Finished(t) /\ WaitsFor(t)' = WaitsFor(t)
          /\ \A t \in Txs : Counting(t)' = Counting(t)
        BY <1>1 DEF vars, Finished, WaitsFor, Counting
    <2>2. BlockedInv'
        BY <1>1 DEF vars, BlockedInv, Finished
    <2>3. CounterInv'
        BY <1>1, <2>1 DEF vars, CounterInv, Counted
    <2>4. NoneForgotten => NoneForgotten'
        BY <1>1, <2>1 DEF vars, NoneForgotten, Holds, HeldTx
    <2> QED
        BY <2>2, <2>3, <2>4
<1>2. ASSUME NEW w \in Workers, SchedulerStep(w) \/ EnvironmentStep(w)
      PROVE  /\ BlockedInv' /\ CounterInv'
             /\ (Counted = {} \/ Cardinality(Workers) <= 2) /\ NoneForgotten
                    => NoneForgotten'
    BY <1>2, BlockedStep, CounterStep, ForgottenStep
<1> QED
    BY <1>1, <1>2 DEF Next, Terminated

\* add_dependency registers a transaction with a lower one that is not finished
\* and cannot become so before it is registered: waiting has no cycle, and no
\* dependent comes after the loop that resumes them.
THEOREM BlockedCorrect == Spec => []BlockedInv
<1> DEFINE I == /\ TypeOK /\ NumValidatedExact /\ WaitInv /\ BlockedInv
                /\ CounterInv
<1>1. Init => I
    BY TypeInit, NumValidatedInit, WaitInit, CounterInit
<1>2. I /\ [Next]_vars => I'
    BY TypeStep, NumValidatedStep, WaitStep, CounterNext
<1> QED
    BY <1>1, <1>2, PTL DEF Spec

\* The counters that finish_execution and add_dependency move without a common
\* lock always agree with the lists of dependents, up to the dependencies
\* registered and not yet counted, for any number of workers.
THEOREM CounterCorrect == Spec => []CounterInv
<1> DEFINE I == /\ TypeOK /\ NumValidatedExact /\ WaitInv /\ BlockedInv
                /\ CounterInv
<1>1. Init => I
    BY TypeInit, NumValidatedInit, WaitInit, CounterInit
<1>2. I /\ [Next]_vars => I'
    BY TypeStep, NumValidatedStep, WaitStep, CounterNext
<1> QED
    BY <1>1, <1>2, PTL DEF Spec

\* With two workers, or when preprocessing found no dependency, no aborted
\* transaction is ever forgotten.
THEOREM NoneForgottenCorrect ==
    ASSUME Counted = {} \/ Cardinality(Workers) <= 2
    PROVE  Spec => []NoneForgotten
<1> DEFINE I == /\ TypeOK /\ NumValidatedExact /\ WaitInv /\ BlockedInv
                /\ CounterInv /\ NoneForgotten
<1>1. Init => I
    BY TypeInit, NumValidatedInit, WaitInit, CounterInit
<1>2. I /\ [Next]_vars => I'
    BY TypeStep, NumValidatedStep, WaitStep, CounterNext
<1> QED
    BY <1>1, <1>2, PTL DEF Spec

\* The operation taken from each place.
LEMMA StepAt ==
    ASSUME NEW w \in Workers, SchedulerStep(w) \/ EnvironmentStep(w)
    PROVE  /\ pc[w] \in {"fetch_exec", "refetch_exec"} => FetchAddExecution(w)
           /\ pc[w] \in {"lock_exec", "relock_exec"} => LockForExecution(w)
           /\ pc[w] = "add_dep" => LockBlocking(w)
           /\ pc[w] = "abort_self" => AbortSelf(w)
           /\ pc[w] = "finish_exec" => SetExecuted(w)
           /\ pc[w] = "lock_deps" => LockDependents(w)
           /\ pc[w] = "resume" => (\E d \in Txs : CountDownDependent(w, d))
           /\ pc[w] = "resume_ready" => ResumeDependent(w)
           /\ pc[w] = "lower_exec" => LowerExecutionIdx(w)
           /\ pc[w] = "validate_higher" => ValidateHigher(w)
           /\ pc[w] = "check_exec" => CheckExecutionIdx(w)
           /\ pc[w] \in {"ret_none", "ret_execution", "ret_validation"} => AfterTask(w)
           /\ pc[w] \in {"execute", "validate", "estimate"} => EnvironmentStep(w)
BY Guards, ZenonT(40) DEF SchedulerStep

-----------------------------------------------------------------------------
(***************************************************************************)
(* Ready transactions.                                                     *)
(***************************************************************************)

\* A worker on its way to a ready transaction takes it, stays on its way, or
\* has lowered execution_idx to it.
LEMMA LookSteps ==
    ASSUME TypeOK, WaitInv, NEW w \in Workers, NEW t \in Txs,
           SchedulerStep(w) \/ EnvironmentStep(w),
           LooksAt(w, t), status[t] = "ReadyToExecute",
           status'[t] = "ReadyToExecute"
    PROVE  execution_idx' <= t \/ LooksAt(w, t)'
<1>1. /\ t \in Nat /\ t < BlockSize /\ BlockSize \in Nat /\ tx_idx[w] \in Txs
      /\ reg[w] \in Nat /\ execution_idx \in Nat /\ pc \in [Workers -> Labels]
    BY BlockSizeAssumption, SMTT(30) DEF Txs, TypeOK
<1>2. CASE pc[w] \in {"lock_exec", "relock_exec"}
    <2>1. LockForExecution(w) /\ tx_idx[w] = t
        BY <1>2, StepAt DEF LooksAt
    <2> QED
        BY <2>1 DEF LockForExecution, TypeOK
<1>3. CASE pc[w] = "validate_higher"
    <2>1. ValidateHigher(w) /\ tx_idx[w] = t
        BY <1>3, StepAt DEF LooksAt
    <2> QED
        BY <1>1, <2>1 DEF ValidateHigher, LooksAt
<1>4. CASE pc[w] = "check_exec"
    <2>1. CheckExecutionIdx(w) /\ tx_idx[w] = t
        BY <1>4, StepAt DEF LooksAt
    <2> QED
        BY <1>1, <2>1, SMTT(30) DEF CheckExecutionIdx, LooksAt
<1>5. CASE pc[w] = "resume"
    <2>1. PICK d \in Txs : CountDownDependent(w, d)
        BY <1>5, StepAt
    <2>2. reg[w] <= t /\ reg[w] # None
        BY <1>1, <1>5, SMTT(30) DEF LooksAt, None
    <2>3. reg' = reg /\ pc'[w] \in {"resume", "resume_ready", "lower_exec"}
        BY <1>1, <2>1, <2>2 DEF CountDownDependent, AfterDependent
    <2> QED
        BY <2>2, <2>3 DEF LooksAt
<1>6. CASE pc[w] = "resume_ready"
    <2>1. ResumeDependent(w) /\ reg[w] <= t
        BY <1>6, StepAt DEF LooksAt
    <2>2. dependent[w] \in Txs /\ status[dependent[w]] = "Aborting"
        BY <1>6 DEF WaitInv, Holds, HeldTx, HeldIsAborted
    <2>3. /\ Lower(dependent[w], reg[w]) <= t
          /\ Lower(dependent[w], reg[w]) # None
        BY <1>1, <2>1, <2>2, SMTT(30) DEF Lower, None, Txs
    <2>4. /\ reg'[w] = Lower(dependent[w], reg[w])
          /\ pc'[w] \in {"resume", "lower_exec"}
        BY <1>1, <2>1, <2>2, <2>3 DEF ResumeDependent, AfterDependent, TypeOK
    <2> QED
        BY <2>3, <2>4 DEF LooksAt
<1>7. CASE pc[w] = "lower_exec"
    <2>1. LowerExecutionIdx(w) /\ reg[w] <= t
        BY <1>7, StepAt DEF LooksAt
    <2> QED
        BY <1>1, <2>1, SMTT(30) DEF LowerExecutionIdx, Lower
<1> QED
    BY <1>2, <1>3, <1>4, <1>5, <1>6, <1>7 DEF LooksAt

\* A transaction that becomes ready has a worker on its way to it.
LEMMA ReadySteps ==
    ASSUME TypeOK, WaitInv, [Next]_vars, NEW t \in Txs,
           status[t] # "ReadyToExecute", status'[t] = "ReadyToExecute"
    PROVE  \E w \in Workers : LooksAt(w, t)'
<1>1. PICK w \in Workers : StatusAction(w)
    BY StatusSteps
<1> USE DEF TypeOK
<1>2. CASE LockForExecution(w)
    BY <1>2 DEF LockForExecution
<1>3. CASE AbortSelf(w)
    BY <1>3 DEF AbortSelf
<1>4. CASE SetExecuted(w)
    BY <1>4 DEF SetExecuted
<1>5. CASE ResumeDependent(w)
    <2>1. /\ dependent[w] = t /\ status[t] = "Aborting"
          /\ reg'[w] = Lower(t, reg[w])
          /\ pc'[w] = AfterDependent(transactions_dependents[tx_idx[w]],
                                     Lower(t, reg[w]))
        BY <1>5, SMTT(30) DEF ResumeDependent, SetReady
    <2>2. Lower(t, reg[w]) <= t /\ Lower(t, reg[w]) # None
        BY BlockSizeAssumption, SMTT(30) DEF Lower, None, Txs
    <2> QED
        BY <2>1, <2>2 DEF LooksAt, AfterDependent
<1>6. CASE TryValidationAbort(w)
    BY <1>6 DEF TryValidationAbort
<1>7. CASE ReadyAborted(w)
    <2>1. tx_idx[w] = t /\ tx_idx' = tx_idx /\ pc'[w] = "validate_higher"
        BY <1>7 DEF ReadyAborted, SetReady
    <2> QED
        BY <2>1 DEF LooksAt
<1>8. CASE MarkValidated(w)
    BY <1>8 DEF MarkValidated
<1> QED
    BY <1>1, <1>2, <1>3, <1>4, <1>5, <1>6, <1>7, <1>8 DEF StatusAction

\* execution_idx passes a transaction only when a worker goes and looks at it.
LEMMA IdxSteps ==
    ASSUME TypeOK, NEW w \in Workers, NEW t \in Txs,
           SchedulerStep(w) \/ EnvironmentStep(w), execution_idx <= t
    PROVE  execution_idx' <= t \/ LooksAt(w, t)'
<1>1. /\ execution_idx \in Nat /\ t \in Nat /\ t < BlockSize /\ reg[w] \in Nat
      /\ BlockSize \in Nat /\ pc \in [Workers -> Labels]
      /\ tx_idx \in [Workers -> Txs]
    BY BlockSizeAssumption, SMTT(30) DEF Txs, TypeOK
<1>2. CASE FetchAddExecution(w)
    BY <1>1, <1>2, SMTT(30) DEF FetchAddExecution, LooksAt
<1>3. CASE LowerExecutionIdx(w)
    BY <1>1, <1>3, SMTT(30) DEF LowerExecutionIdx, Lower
<1>4. CASE ~FetchAddExecution(w) /\ ~LowerExecutionIdx(w)
    <2>1. CASE SchedulerStep(w)
        BY <1>4, <2>1, ZenonT(60) DEF SchedulerStep, LoadExecutionIdx,
           LoadValidationIdx, LoadNumValidated, LoadMinValidationIdx,
           FetchAddValidation, LockForValidation, LockForExecution,
           LockBlocking, AbortSelf, PushDependent, CountDependency,
           SetExecuted, LockDependents, CountDownDependent, ResumeDependent,
           LowerMinValidationIdx, ValidateFromMin, CheckValidationIdx,
           ValidateFromNext, TryValidationAbort, ReadyAborted,
           ValidateHigher, CheckExecutionIdx, MarkValidated, AfterTask
    <2>2. CASE EnvironmentStep(w)
        BY <2>2, ZenonT(40) DEF EnvironmentStep, VmReadError, VmOk,
           VmExecutionError, ReadSetValid, ReadSetInvalid, EstimatesWritten
    <2> QED
        BY <2>1, <2>2, ZenonT(60)
<1> QED
    BY <1>2, <1>3, <1>4

-----------------------------------------------------------------------------
(***************************************************************************)
(* Executing and finished transactions.                                    *)
(***************************************************************************)

\* A worker runs its transaction until it gives it another status, or there
\* is an error.
LEMMA RunSteps ==
    ASSUME TypeOK, NEW w \in Workers, SchedulerStep(w) \/ EnvironmentStep(w),
           Runs(w), status'[tx_idx[w]] = "Executing", ~execution_error'
    PROVE  Runs(w)' /\ tx_idx'[w] = tx_idx[w]
<1>1. pc \in [Workers -> Labels] /\ tx_idx[w] \in Txs
    BY DEF TypeOK
<1>2. CASE pc[w] = "ret_execution"
    BY <1>1, <1>2, StepAt, SMTT(30) DEF AfterTask, Runs
<1>3. CASE pc[w] = "execute"
    <2>1. EnvironmentStep(w)
        BY <1>3, StepAt
    <2>2. CASE \E b \in Txs : VmReadError(w, b)
        BY <1>1, <2>2 DEF VmReadError, Runs
    <2>3. CASE \E wrote \in BOOLEAN : \E next \in NextValidation(tx_idx[w]) :
                   VmOk(w, wrote, next)
        BY <1>1, <2>3 DEF VmOk, Runs
    <2> QED
        BY <1>3, <2>1, <2>2, <2>3 DEF EnvironmentStep, VmExecutionError,
           ReadSetValid, ReadSetInvalid, EstimatesWritten
<1>4. CASE pc[w] = "add_dep"
    BY <1>1, <1>4, StepAt DEF LockBlocking, Runs
<1>5. CASE pc[w] = "abort_self"
    BY <1>1, <1>5, StepAt, ZenonT(60) DEF AbortSelf, TypeOK
<1>6. CASE pc[w] = "finish_exec"
    BY <1>1, <1>6, StepAt, SMTT(30) DEF SetExecuted, TypeOK
<1> QED
    BY <1>2, <1>3, <1>4, <1>5, <1>6 DEF Runs

\* A transaction that becomes Executing is run by the worker that took it.
LEMMA StartSteps ==
    ASSUME TypeOK, [Next]_vars, NEW t \in Txs,
           status[t] # "Executing", status'[t] = "Executing"
    PROVE  \E w \in Workers : Runs(w)' /\ tx_idx'[w] = t
<1>1. PICK w \in Workers : StatusAction(w)
    BY StatusSteps
<1> USE DEF TypeOK
<1>2. CASE LockForExecution(w)
    BY <1>2 DEF LockForExecution, Runs
<1>3. CASE AbortSelf(w)
    BY <1>3 DEF AbortSelf
<1>4. CASE SetExecuted(w)
    BY <1>4 DEF SetExecuted
<1>5. CASE ResumeDependent(w)
    BY <1>5, ZenonT(60) DEF ResumeDependent, SetReady
<1>6. CASE TryValidationAbort(w)
    BY <1>6 DEF TryValidationAbort
<1>7. CASE ReadyAborted(w)
    BY <1>7 DEF ReadyAborted, SetReady
<1>8. CASE MarkValidated(w)
    BY <1>8 DEF MarkValidated
<1> QED
    BY <1>1, <1>2, <1>3, <1>4, <1>5, <1>6, <1>7, <1>8 DEF StatusAction

\* A worker that resumes dependents leaves none behind.
LEMMA ResumeSteps ==
    ASSUME TypeOK, WaitInv, NEW w \in Workers, NEW t \in Txs,
           SchedulerStep(w) \/ EnvironmentStep(w), Resumes(w, t)
    PROVE  transactions_dependents'[t] = {} \/ Resumes(w, t)'
<1>1. pc \in [Workers -> Labels] /\ tx_idx[w] = t
    BY DEF TypeOK, Resumes
<1>2. CASE pc[w] = "lock_deps"
    BY <1>1, <1>2, StepAt DEF LockDependents, AfterDependent, Resumes
<1>3. CASE pc[w] = "resume"
    <2>1. PICK d \in Txs : CountDownDependent(w, d)
        BY <1>3, StepAt
    <2> QED
        BY <1>1, <2>1 DEF CountDownDependent, AfterDependent, Resumes, TypeOK
<1>4. CASE pc[w] = "resume_ready"
    <2>1. ResumeDependent(w)
        BY <1>4, StepAt
    <2>2. status[dependent[w]] = "Aborting"
        BY <1>4 DEF WaitInv, Holds, HeldTx, HeldIsAborted
    <2> QED
        BY <1>1, <2>1, <2>2 DEF ResumeDependent, AfterDependent, Resumes, TypeOK
<1> QED
    BY <1>2, <1>3, <1>4 DEF Resumes

\* Only add_dependency gives a transaction a dependent, and not one that is
\* finished.
LEMMA DependentSteps ==
    ASSUME TypeOK, BlockedInv, NEW w \in Workers, NEW t \in Txs,
           SchedulerStep(w) \/ EnvironmentStep(w), Finished(t),
           transactions_dependents[t] = {}
    PROVE  transactions_dependents'[t] = {}
<1>1. CASE UNCHANGED depVars \/ CountDependency(w)
    BY <1>1 DEF CountDependency
<1>2. CASE PushDependent(w)
    <2>1. reg[w] # t
        BY <1>2 DEF PushDependent, BlockedInv
    <2> QED
        BY <1>2, <2>1 DEF PushDependent, TypeOK
<1>3. CASE \E d \in Txs : CountDownDependent(w, d)
    BY <1>3 DEF CountDownDependent, TypeOK
<1> QED
    BY <1>1, <1>2, <1>3, DepSteps DEF DepAction

\* Every step leaves somebody in charge of each transaction not finished, and
\* of each dependent of a finished one.
LEMMA OverlookedStep ==
    ASSUME TypeOK, WaitInv, BlockedInv, NoneOverlooked, NEW w \in Workers,
           SchedulerStep(w) \/ EnvironmentStep(w)
    PROVE  NoneOverlooked'
<1>1. Alone(w) /\ [Next]_vars
    BY OneWorker DEF Next
<1>2. SUFFICES ASSUME NEW t \in Txs
               PROVE  /\ status'[t] = "ReadyToExecute" =>
                             \/ execution_idx' <= t
                             \/ \E v \in Workers : LooksAt(v, t)'
                      /\ status'[t] = "Executing" /\ ~execution_error' =>
                             \E v \in Workers : Runs(v)' /\ tx_idx'[v] = t
                      /\ Finished(t)' /\ transactions_dependents'[t] # {} =>
                             \E v \in Workers : Resumes(v, t)'
    BY DEF NoneOverlooked
<1>3. ASSUME status'[t] = "ReadyToExecute"
      PROVE  execution_idx' <= t \/ \E v \in Workers : LooksAt(v, t)'
    <2>1. CASE status[t] # "ReadyToExecute"
        BY <1>1, <1>3, <2>1, ReadySteps
    <2>2. CASE status[t] = "ReadyToExecute" /\ execution_idx <= t
        BY <2>2, IdxSteps
    <2>3. ASSUME NEW v \in Workers, LooksAt(v, t), status[t] = "ReadyToExecute"
          PROVE  execution_idx' <= t \/ LooksAt(v, t)'
        <3>1. CASE v = w
            BY <1>3, <2>3, <3>1, LookSteps
        <3>2. CASE v # w
            BY <1>1, <2>3, <3>2 DEF Alone, LooksAt
        <3> QED
            BY <3>1, <3>2
    <2> QED
        BY <2>1, <2>2, <2>3 DEF NoneOverlooked
<1>4. ASSUME status'[t] = "Executing", ~execution_error'
      PROVE  \E v \in Workers : Runs(v)' /\ tx_idx'[v] = t
    <2>1. CASE status[t] # "Executing"
        BY <1>1, <1>4, <2>1, StartSteps
    <2>2. CASE status[t] = "Executing"
        <3>1. ~execution_error
            BY <1>4, ErrorSteps
        <3>2. PICK v \in Workers : Runs(v) /\ tx_idx[v] = t
            BY <2>2, <3>1 DEF NoneOverlooked
        <3>3. CASE v = w
            BY <1>4, <3>2, <3>3, RunSteps
        <3>4. CASE v # w
            BY <1>1, <3>2, <3>4 DEF Alone, Runs
        <3> QED
            BY <3>3, <3>4
    <2> QED
        BY <2>1, <2>2
<1>5. ASSUME Finished(t)', transactions_dependents'[t] # {}
      PROVE  \E v \in Workers : Resumes(v, t)'
    <2>1. CASE ~Finished(t)
        <3>1. PICK v \in Workers : SetExecuted(v) /\ tx_idx[v] = t
            BY <1>1, <1>5, <2>1, FinishSteps
        <3>2. status'[t] # status[t]
            BY <1>5, <2>1 DEF Finished
        <3>3. tx_idx' = tx_idx /\ pc'[v] = "lock_deps"
            BY <3>1, <3>2 DEF SetExecuted, TypeOK
        <3> QED
            BY <3>1, <3>3 DEF Resumes
    <2>2. CASE Finished(t) /\ transactions_dependents[t] # {}
        <3>1. PICK v \in Workers : Resumes(v, t)
            BY <2>2 DEF NoneOverlooked
        <3>2. CASE v = w
            BY <1>5, <3>1, <3>2, ResumeSteps
        <3>3. CASE v # w
            BY <1>1, <3>1, <3>3 DEF Alone, Resumes
        <3> QED
            BY <3>2, <3>3
    <2>3. CASE Finished(t) /\ transactions_dependents[t] = {}
        BY <1>5, <2>3, DependentSteps
    <2> QED
        BY <2>1, <2>2, <2>3
<1> QED
    BY <1>3, <1>4, <1>5

-----------------------------------------------------------------------------
(***************************************************************************)
(* Leaving.                                                                *)
(***************************************************************************)

\* The places between two tasks.
Resting(w) == pc[w] \in {"next", "next_val", "check_validated", "check_min", "done"}

\* Without an error, a worker gets to these places, but for the first one, by
\* the loads of next_task only.
LEMMA RestSteps ==
    ASSUME TypeOK, NEW w \in Workers, SchedulerStep(w) \/ EnvironmentStep(w),
           Resting(w)', pc'[w] # "next", ~execution_error
    PROVE  \/ LoadExecutionIdx(w) \/ LoadValidationIdx(w)
           \/ LoadNumValidated(w) \/ LoadMinValidationIdx(w)
<1>1. pc \in [Workers -> Labels]
    BY DEF TypeOK
<1>2. pc'[w] \in {"next_val", "check_validated", "check_min", "done"}
    BY DEF Resting
<1>3. ~(\/ FetchAddValidation(w) \/ LockForValidation(w)
        \/ FetchAddExecution(w) \/ LockForExecution(w) \/ LockBlocking(w)
        \/ AbortSelf(w) \/ PushDependent(w) \/ CountDependency(w)
        \/ SetExecuted(w) \/ LockDependents(w))
    BY <1>1, <1>2, ZenonT(60) DEF FetchAddValidation, LockForValidation,
       FetchAddExecution, LockForExecution, LockBlocking, AbortSelf,
       PushDependent, CountDependency, SetExecuted, LockDependents,
       AfterDependent
<1>4. ~ResumeDependent(w) /\ ~\E d \in Txs : CountDownDependent(w, d)
    BY <1>1, <1>2, ZenonT(40) DEF ResumeDependent, CountDownDependent, AfterDependent
<1>5. ~(\/ LowerExecutionIdx(w) \/ LowerMinValidationIdx(w) \/ ValidateFromMin(w)
        \/ CheckValidationIdx(w) \/ ValidateFromNext(w) \/ TryValidationAbort(w)
        \/ ReadyAborted(w) \/ ValidateHigher(w) \/ CheckExecutionIdx(w)
        \/ MarkValidated(w) \/ AfterTask(w))
    BY <1>1, <1>2, ZenonT(60) DEF LowerExecutionIdx, LowerMinValidationIdx,
       ValidateFromMin, CheckValidationIdx, ValidateFromNext,
       TryValidationAbort, ReadyAborted, ValidateHigher, CheckExecutionIdx,
       MarkValidated, AfterTask
<1>6. ~EnvironmentStep(w)
    BY <1>1, <1>2, ZenonT(40) DEF EnvironmentStep, VmReadError, VmOk,
       VmExecutionError, ReadSetValid, ReadSetInvalid, EstimatesWritten
<1> QED
    BY <1>3, <1>4, <1>5, <1>6, ZenonT(40) DEF SchedulerStep

\* The last worker to go looks again.
LEMMA LooksAgainStep ==
    ASSUME TypeOK, LastLooksAgain, NEW w \in Workers,
           SchedulerStep(w) \/ EnvironmentStep(w)
    PROVE  LastLooksAgain'
<1>1. SUFFICES ASSUME \A v \in Workers : Resting(v)', ~execution_error'
               PROVE  AllValidated' \/ \E v \in Workers : UpToDate(v)'
    BY DEF LastLooksAgain, Resting
<1>2. Alone(w) /\ ~execution_error
    BY <1>1, OneWorker, ErrorSteps
<1>3. CASE pc'[w] = "next"
    BY <1>3 DEF UpToDate
<1>4. CASE LoadExecutionIdx(w)
    <2>1. pc'[w] = "next_val" /\ reg'[w] = execution_idx /\ execution_idx' = execution_idx
        BY <1>4 DEF LoadExecutionIdx, TypeOK
    <2> QED
        BY <2>1 DEF UpToDate
<1>5. CASE LoadValidationIdx(w) \/ LoadNumValidated(w) \/ LoadMinValidationIdx(w)
    <2>1. /\ UNCHANGED sharedVars
          /\ pc[w] \in {"next_val", "check_validated", "check_min"}
        BY <1>5 DEF LoadValidationIdx, LoadNumValidated, LoadMinValidationIdx
    <2>2. \A v \in Workers : Resting(v)
        BY <1>1, <1>2, <2>1 DEF Resting, Alone
    <2>3. CASE AllValidated
        BY <2>1, <2>3 DEF AllValidated
    <2>4. ASSUME NEW v \in Workers \ {w}, UpToDate(v) PROVE UpToDate(v)'
        BY <1>2, <2>1, <2>4 DEF Alone, UpToDate
    <2>5. ASSUME UpToDate(w), pc'[w] # "next" PROVE AllValidated' \/ UpToDate(w)'
        <3> USE <2>1
        <3>1. /\ num_validated \in Nat /\ reg[w] \in Nat /\ BlockSize \in Nat
              /\ min_validation_idx \in 0 .. BlockSize
            BY BlockSizeAssumption DEF TypeOK
        <3>2. CASE LoadValidationIdx(w)
            <4>1. /\ pc[w] = "next_val" /\ pc'[w] = "check_validated"
                  /\ reg[w] >= BlockSize /\ validation_idx >= BlockSize
                BY <1>1, <2>5, <3>2 DEF LoadValidationIdx, Resting, TypeOK
            <4> QED
                BY <2>5, <4>1 DEF UpToDate
        <3>3. CASE LoadNumValidated(w)
            <4>1. /\ pc[w] = "check_validated" /\ pc'[w] = "check_min"
                  /\ reg'[w] = num_validated
                BY <3>3 DEF LoadNumValidated, TypeOK
            <4> QED
                BY <2>5, <3>1, <4>1, SMTT(30) DEF UpToDate
        <3>4. CASE LoadMinValidationIdx(w)
            <4>1. pc[w] = "check_min" /\ reg[w] >= BlockSize - min_validation_idx
                BY <2>5, <3>4 DEF LoadMinValidationIdx, TypeOK
            <4>2. /\ execution_idx >= BlockSize /\ validation_idx >= BlockSize
                  /\ reg[w] <= num_validated
                BY <2>5, <4>1 DEF UpToDate
            <4> QED
                BY <3>1, <4>1, <4>2, SMTT(30) DEF AllValidated
        <3> QED
            BY <1>5, <3>2, <3>3, <3>4
    <2> QED
        BY <1>2, <1>3, <2>2, <2>3, <2>4, <2>5 DEF LastLooksAgain, Resting
<1> QED
    BY <1>1, <1>2, <1>3, <1>4, <1>5, RestSteps

\* When all workers have left without an error, the least transaction that is
\* not finished would have nobody in charge of it.
LEMMA ExitFinished ==
    ASSUME TypeOK, StopConditionSound, BlockedInv, NoneForgotten,
           NoneOverlooked, LastLooksAgain
    PROVE  AllFinishedAtExit
<1>1. SUFFICES ASSUME \A w \in Workers : pc[w] = "done", ~execution_error
               PROVE  \A t \in Txs : Finished(t) /\
                          (t >= min_validation_idx => status[t] = "Validated")
    BY DEF AllFinishedAtExit
<1>2. AllValidated
    BY <1>1 DEF LastLooksAgain, UpToDate
<1>3. \A t \in Txs : t >= min_validation_idx => status[t] = "Validated"
    BY <1>2 DEF AllValidated, StopConditionSound
<1>4. \A t \in Txs : status[t] # "ReadyToExecute" /\ status[t] # "Executing"
    <2>1. \A t \in Txs : ~(execution_idx <= t)
        BY <1>2, BlockSizeAssumption, SMTT(30) DEF AllValidated, Txs, TypeOK
    <2>2. \A w \in Workers, t \in Txs : ~LooksAt(w, t) /\ ~Runs(w)
        BY <1>1 DEF LooksAt, Runs
    <2> QED
        BY <1>1, <2>1, <2>2 DEF NoneOverlooked
<1>5. \A t \in Txs : Finished(t) => transactions_dependents[t] = {}
    BY <1>1 DEF NoneOverlooked, Resumes
<1>6. ASSUME NEW t \in Txs, ~Finished(t) PROVE FALSE
    <2> DEFINE U == {u \in Txs : ~Finished(u)}
    <2>1. U # {} /\ U \subseteq Nat
        BY <1>6, BlockSizeAssumption, SMTT(30) DEF Txs
    <2>2. PICK m \in U : \A k \in U : m <= k
        BY <2>1, LeastElement
    <2>3. status[m] = "Aborting"
        BY <1>4, <2>2 DEF Finished, TypeOK, Statuses
    <2>4. PICK b \in Txs : m \in transactions_dependents[b]
        BY <1>1, <2>2, <2>3 DEF NoneForgotten, WaitsFor, Holds
    <2>5. b < m /\ b \notin U
        <3>1. b < m
            BY <2>4 DEF BlockedInv
        <3> QED
            BY <2>1, <2>2, <3>1, BlockSizeAssumption, SMTT(30) DEF Txs
    <2> QED
        BY <1>5, <2>4, <2>5
<1> QED
    BY <1>3, <1>6

\* At first every transaction is ahead of execution_idx and every worker is
\* about to look.
LEMMA ExitInit == Init => NoneOverlooked /\ LastLooksAgain
<1> SUFFICES ASSUME Init PROVE NoneOverlooked /\ LastLooksAgain
    OBVIOUS
<1>1. \A t \in Txs : /\ execution_idx <= t
                     /\ status[t] \in {"ReadyToExecute", "Aborting"}
    BY BlockSizeAssumption, SMTT(30) DEF Init, Txs
<1>2. NoneOverlooked
    BY <1>1, Zenon DEF NoneOverlooked, Finished
<1>3. LastLooksAgain
    BY BoundsAssumption DEF Init, LastLooksAgain, UpToDate
<1> QED
    BY <1>2, <1>3

\* The invariants of this module, kept by any step.
LEMMA ExitNext ==
    ASSUME TypeOK, WaitInv, BlockedInv, NoneOverlooked, LastLooksAgain, [Next]_vars
    PROVE  NoneOverlooked' /\ LastLooksAgain'
<1>1. CASE UNCHANGED vars
    <2>1. NoneOverlooked'
        <3>1. UNCHANGED <<status, execution_idx, execution_error, transactions_dependents>>
            BY <1>1 DEF vars
        <3>2. \A w \in Workers, t \in Txs :
                  /\ LooksAt(w, t)' = LooksAt(w, t) /\ Resumes(w, t)' = Resumes(w, t)
                  /\ (Runs(w) /\ tx_idx[w] = t)' = (Runs(w) /\ tx_idx[w] = t)
            BY <1>1 DEF vars, LooksAt, Resumes, Runs
        <3> QED
            BY <3>1, <3>2, SMTT(30) DEF NoneOverlooked, Finished
    <2>2. LastLooksAgain'
        BY <1>1 DEF vars, LastLooksAgain, UpToDate, AllValidated
    <2> QED
        BY <2>1, <2>2
<1>2. ASSUME NEW w \in Workers, SchedulerStep(w) \/ EnvironmentStep(w)
      PROVE  NoneOverlooked' /\ LastLooksAgain'
    BY <1>2, OverlookedStep, LooksAgainStep
<1> QED
    BY <1>1, <1>2 DEF Next, Terminated

\* A transaction that is ready is always one that some worker will come to,
\* one that is Executing has a worker that runs it, and the dependents of a
\* finished one have a worker that resumes them.
THEOREM NoneOverlookedCorrect == Spec => []NoneOverlooked
<1> DEFINE I == /\ TypeOK /\ NumValidatedExact /\ WaitInv /\ BlockedInv
                /\ CounterInv /\ NoneOverlooked /\ LastLooksAgain
<1>1. Init => I
    BY TypeInit, NumValidatedInit, WaitInit, CounterInit, ExitInit
<1>2. I /\ [Next]_vars => I'
    BY TypeStep, NumValidatedStep, WaitStep, CounterNext, ExitNext
<1> QED
    BY <1>1, <1>2, PTL DEF Spec

\* The last worker never leaves next_task on loads that are outdated.
THEOREM LastLooksAgainCorrect == Spec => []LastLooksAgain
<1> DEFINE I == /\ TypeOK /\ NumValidatedExact /\ WaitInv /\ BlockedInv
                /\ CounterInv /\ NoneOverlooked /\ LastLooksAgain
<1>1. Init => I
    BY TypeInit, NumValidatedInit, WaitInit, CounterInit, ExitInit
<1>2. I /\ [Next]_vars => I'
    BY TypeStep, NumValidatedStep, WaitStep, CounterNext, ExitNext
<1> QED
    BY <1>1, <1>2, PTL DEF Spec

\* With two workers, or when preprocessing found no dependency: once every
\* worker has left without an error, every transaction is finished, and
\* validated from min_validation_idx on.
THEOREM AllFinishedAtExitCorrect ==
    ASSUME Counted = {} \/ Cardinality(Workers) <= 2
    PROVE  Spec => []AllFinishedAtExit
<1>1. TypeOK /\ StopConditionSound /\ BlockedInv /\ NoneForgotten
      /\ NoneOverlooked /\ LastLooksAgain => AllFinishedAtExit
    BY ExitFinished
<1> DEFINE I == TypeOK /\ NumValidatedExact /\ WaitInv /\ BlockedInv /\ CounterInv
<1>2. Init => I
    BY TypeInit, NumValidatedInit, WaitInit, CounterInit
<1>3. I /\ [Next]_vars => I'
    BY TypeStep, NumValidatedStep, WaitStep, CounterNext
<1>4. I => TypeOK /\ BlockedInv
    OBVIOUS
<1> HIDE DEF I
<1> QED
    BY <1>1, <1>2, <1>3, <1>4, StopConditionCorrect, NoneForgottenCorrect,
       NoneOverlookedCorrect, LastLooksAgainCorrect, PTL DEF Spec

-----------------------------------------------------------------------------
(***************************************************************************)
(* The scheduler implements TaskBoard under the mapping of SchedulerBoard. *)
(***************************************************************************)

\* The board is about the same block.
LEMMA BoardBlock == Board!Txs = Txs /\ Board!None = None
BY DEF Board!Txs, Txs, Board!None, None

\* A step of w changes the board at w only.
LEMMA BoardFrame ==
    ASSUME TypeOK, TypeOK', NEW w \in Workers, Alone(w)
    PROVE  /\ RunningBar' = [RunningBar EXCEPT ![w] =
                                IF Runs(w)' THEN tx_idx'[w] ELSE None]
           /\ LeftBar' = IF Stopped(w)' THEN LeftBar \cup {w} ELSE LeftBar \ {w}
<1>1. \A v \in Workers \ {w} : /\ Runs(v)' = Runs(v) /\ Stopped(v)' = Stopped(v)
                               /\ tx_idx'[v] = tx_idx[v]
    BY DEF Alone, Runs, Stopped
<1>2. RunningBar' = [RunningBar EXCEPT ![w] = IF Runs(w)' THEN tx_idx'[w] ELSE None]
    BY <1>1 DEF RunningBar
<1>3. LeftBar' = IF Stopped(w)' THEN LeftBar \cup {w} ELSE LeftBar \ {w}
    BY <1>1 DEF LeftBar
<1> QED
    BY <1>2, <1>3

\* A change of one status, on the board.
LEMMA BoardMove ==
    ASSUME TypeOK, NEW t \in Txs, NEW s \in Statuses,
           status' = [status EXCEPT ![t] = s]
    PROVE  StageBar' = [StageBar EXCEPT ![t] = StageOf(s)]
BY DEF StageBar, TypeOK

\* A step that leaves statuses, error and the transaction that w runs alone is
\* none of the board.
Quiet(w) ==
    /\ UNCHANGED <<status, execution_error>>
    /\ (Runs(w)' <=> Runs(w)) /\ (Stopped(w)' <=> Stopped(w))
    /\ Runs(w) => tx_idx'[w] = tx_idx[w]

\* What such a step leaves of the board.
LEMMA QuietBoard ==
    ASSUME TypeOK, TypeOK', NEW w \in Workers, Alone(w), Quiet(w)
    PROVE  UNCHANGED Board!boardVars
<1>1. RunningBar' = RunningBar
    BY BoardFrame DEF Quiet, RunningBar
<1>2. LeftBar' = LeftBar
    BY BoardFrame DEF Quiet, LeftBar
<1>3. StageBar' = StageBar
    BY DEF Quiet, StageBar
<1> QED
    BY <1>1, <1>2, <1>3 DEF Quiet, Board!boardVars

\* The operations that are none of the board.
QuietAction(w) ==
    \/ LoadExecutionIdx(w) \/ LoadValidationIdx(w) \/ LoadNumValidated(w)
    \/ FetchAddValidation(w) \/ LockForValidation(w) \/ FetchAddExecution(w)
    \/ LockBlocking(w) \/ PushDependent(w) \/ CountDependency(w)
    \/ LockDependents(w) \/ LowerExecutionIdx(w) \/ LowerMinValidationIdx(w)
    \/ ValidateFromMin(w) \/ CheckValidationIdx(w) \/ ValidateFromNext(w)
    \/ ValidateHigher(w) \/ CheckExecutionIdx(w)
    \/ ReadSetValid(w) \/ ReadSetInvalid(w) \/ EstimatesWritten(w)
    \/ \E b \in Txs : VmReadError(w, b)
    \/ \E wrote \in BOOLEAN : \E next \in NextValidation(tx_idx[w]) :
           VmOk(w, wrote, next)
    \/ \E d \in Txs : CountDownDependent(w, d)

\* They leave w with the transaction it runs, or with none.
LEMMA QuietSteps ==
    ASSUME TypeOK, NEW w \in Workers, QuietAction(w)
    PROVE  Quiet(w)
<1>1. pc \in [Workers -> Labels] /\ tx_idx \in [Workers -> Txs]
    BY DEF TypeOK
<1>2. CASE \/ LoadExecutionIdx(w) \/ LoadValidationIdx(w) \/ LoadNumValidated(w)
           \/ FetchAddValidation(w) \/ LockForValidation(w) \/ FetchAddExecution(w)
           \/ PushDependent(w) \/ CountDependency(w) \/ LockDependents(w)
           \/ ValidateHigher(w) \/ CheckExecutionIdx(w)
    <2>1. /\ UNCHANGED <<status, execution_error>>
          /\ ~Runs(w) /\ ~Runs(w)' /\ ~Stopped(w) /\ ~Stopped(w)'
        <3>1. CASE \/ LoadExecutionIdx(w) \/ LoadValidationIdx(w)
                   \/ LoadNumValidated(w) \/ FetchAddValidation(w)
            BY <1>1, <3>1, ZenonT(60) DEF Runs, Stopped, LoadExecutionIdx,
               LoadValidationIdx, LoadNumValidated, FetchAddValidation
        <3>2. CASE \/ LockForValidation(w) \/ FetchAddExecution(w)
                   \/ PushDependent(w) \/ CountDependency(w)
            BY <1>1, <3>2, ZenonT(60) DEF Runs, Stopped, LockForValidation,
               FetchAddExecution, PushDependent, CountDependency
        <3>3. CASE \/ LockDependents(w) \/ ValidateHigher(w)
                   \/ CheckExecutionIdx(w)
            BY <1>1, <3>3, ZenonT(60) DEF Runs, Stopped, LockDependents,
               AfterDependent, ValidateHigher, CheckExecutionIdx
        <3> QED
            BY <1>2, <3>1, <3>2, <3>3, Zenon
    <2> QED
        BY <2>1, Zenon DEF Quiet
<1>3. CASE \/ LowerExecutionIdx(w) \/ LowerMinValidationIdx(w)
           \/ ValidateFromMin(w) \/ CheckValidationIdx(w) \/ ValidateFromNext(w)
           \/ ReadSetValid(w) \/ ReadSetInvalid(w) \/ EstimatesWritten(w)
    <2>1. /\ UNCHANGED <<status, execution_error>>
          /\ ~Runs(w) /\ ~Runs(w)' /\ ~Stopped(w) /\ ~Stopped(w)'
        <3>1. CASE LowerExecutionIdx(w) \/ LowerMinValidationIdx(w)
            BY <1>1, <3>1, ZenonT(60) DEF Runs, Stopped, LowerExecutionIdx,
               LowerMinValidationIdx
        <3>2. CASE ValidateFromMin(w) \/ CheckValidationIdx(w) \/ ValidateFromNext(w)
            BY <1>1, <3>2, ZenonT(60) DEF Runs, Stopped, ValidateFromMin,
               CheckValidationIdx, ValidateFromNext
        <3>3. CASE ReadSetValid(w) \/ ReadSetInvalid(w) \/ EstimatesWritten(w)
            BY <1>1, <3>3, ZenonT(60) DEF Runs, Stopped, ReadSetValid,
               ReadSetInvalid, EstimatesWritten
        <3> QED
            BY <1>3, <3>1, <3>2, <3>3, Zenon
    <2> QED
        BY <2>1, Zenon DEF Quiet
<1>4. CASE LockBlocking(w) \/ \E b \in Txs : VmReadError(w, b)
    BY <1>1, <1>4 DEF Quiet, Runs, Stopped, LockBlocking, VmReadError
<1>5. CASE \E wrote \in BOOLEAN : \E next \in NextValidation(tx_idx[w]) :
               VmOk(w, wrote, next)
    BY <1>1, <1>5, ZenonT(40) DEF Quiet, Runs, Stopped, VmOk
<1>6. CASE \E d \in Txs : CountDownDependent(w, d)
    <2>1. /\ UNCHANGED <<status, execution_error, tx_idx>> /\ pc[w] = "resume"
          /\ pc'[w] \in {"resume", "resume_ready", "lower_exec", "lower_min"}
        BY <1>1, <1>6, ZenonT(40) DEF CountDownDependent, AfterDependent
    <2> QED
        BY <2>1 DEF Quiet, Runs, Stopped
<1> QED
    BY <1>2, <1>3, <1>4, <1>5, <1>6, ZenonT(40) DEF QuietAction

\* Taking a transaction, completing it, postponing it, withdrawing it and
\* making it ready again are the steps of the board with those names; the
\* mark that a transaction is validated is none.
LEMMA StatusBoard ==
    ASSUME TypeOK, TypeOK', ExecutorInv, WaitInv, NoPanic', NEW w \in Workers,
           Alone(w), StatusAction(w)
    PROVE  Board!Next \/ UNCHANGED Board!boardVars
<1>1. /\ tx_idx[w] \in Txs /\ RunningBar[w] = IF Runs(w) THEN tx_idx[w] ELSE None
      /\ w \in LeftBar <=> Stopped(w)
      /\ pc'[w] # "panicked" /\ tx_idx[w] # None
    BY BlockSizeAssumption, SMTT(30) DEF TypeOK, RunningBar, LeftBar, NoPanic, None, Txs
<1>2. \A t \in Txs : StageBar[t] = StageOf(status[t])
    BY DEF StageBar
<1>3. ASSUME ~Runs(w), ~Runs(w)', ~Stopped(w), ~Stopped(w)'
      PROVE  /\ RunningBar' = RunningBar /\ LeftBar' = LeftBar
             /\ Board!Free(w)
    <2>1. RunningBar' = RunningBar
        BY <1>3, BoardFrame DEF RunningBar
    <2>2. LeftBar' = LeftBar
        BY <1>3, BoardFrame DEF LeftBar
    <2> QED
        BY <1>1, <1>3, <2>1, <2>2, BoardBlock DEF Board!Free
<1>4. CASE LockForExecution(w)
    <2> USE <1>4 DEF LockForExecution
    <2>1. CASE IsReady(tx_idx[w])
        <3>1. /\ ~Runs(w) /\ Runs(w)' /\ ~Stopped(w) /\ ~Stopped(w)'
              /\ tx_idx'[w] = tx_idx[w] /\ execution_error' = execution_error
            BY <2>1 DEF TypeOK, Runs, Stopped
        <3>2. StageBar' = [StageBar EXCEPT ![tx_idx[w]] = "running"]
            BY <1>1, <2>1, BoardMove DEF Statuses, StageOf
        <3>3. RunningBar' = [RunningBar EXCEPT ![w] = tx_idx[w]] /\ LeftBar' = LeftBar
            BY <3>1, BoardFrame DEF LeftBar
        <3>4. Board!Take(w, tx_idx[w])
            BY <1>1, <1>2, <2>1, <3>1, <3>2, <3>3, BoardBlock
            DEF Board!Take, Board!Free, Board!Move, StageOf
        <3> QED
            BY <1>1, <3>4, BoardBlock DEF Board!Next
    <2>2. CASE ~IsReady(tx_idx[w])
        <3>1. Quiet(w)
            BY <2>2 DEF TypeOK, Quiet, Runs, Stopped
        <3> QED
            BY <3>1, QuietBoard
    <2> QED
        BY <2>1, <2>2
<1>5. CASE AbortSelf(w) \/ SetExecuted(w)
    <2>1. /\ Runs(w) /\ ~Runs(w)' /\ ~Stopped(w) /\ ~Stopped(w)'
          /\ execution_error' = execution_error
          /\ status[tx_idx[w]] = "Executing"
        BY <1>1, <1>5 DEF TypeOK, Runs, Stopped, AbortSelf, SetExecuted
    <2>2. RunningBar' = [RunningBar EXCEPT ![w] = None] /\ LeftBar' = LeftBar
        BY <2>1, BoardFrame DEF LeftBar
    <2>3. PICK to \in {"waiting", "finished"} :
              StageBar' = [StageBar EXCEPT ![tx_idx[w]] = to]
        <3>1. CASE AbortSelf(w)
            BY <1>1, <2>1, <3>1, BoardMove DEF AbortSelf, Statuses, StageOf
        <3>2. CASE SetExecuted(w)
            BY <1>1, <2>1, <3>2, BoardMove DEF SetExecuted, Statuses, StageOf
        <3> QED
            BY <1>5, <3>1, <3>2
    <2>4. Board!PutBack(w, to)
        BY <1>1, <1>2, <2>1, <2>2, <2>3, BoardBlock DEF Board!PutBack, Board!Move, StageOf
    <2> QED
        BY <2>4 DEF Board!Next
<1>6. CASE ResumeDependent(w) \/ ReadyAborted(w)
    <2> DEFINE t == HeldTx(w)
    <2>1. t \in Txs /\ status[t] = "Aborting"
        BY <1>6 DEF WaitInv, Holds, HeldIsAborted, ResumeDependent, ReadyAborted
    <2>2. /\ ~Runs(w) /\ ~Runs(w)' /\ ~Stopped(w) /\ ~Stopped(w)'
          /\ execution_error' = execution_error
          /\ status' = [status EXCEPT ![t] = "ReadyToExecute"]
        <3>1. CASE ResumeDependent(w)
            <4>1. pc[w] = "resume_ready" /\ t = dependent[w]
                BY <3>1 DEF ResumeDependent, HeldTx
            <4>2. /\ status' = [status EXCEPT ![t] = "ReadyToExecute"]
                  /\ execution_error' = execution_error
                BY <2>1, <3>1, <4>1 DEF ResumeDependent, SetReady
            <4>3. pc'[w] \in {"resume", "lower_exec", "lower_min"}
                BY <2>1, <3>1, <4>1, ZenonT(40) DEF TypeOK, ResumeDependent, AfterDependent
            <4> QED
                BY <4>1, <4>2, <4>3 DEF Runs, Stopped
        <3>2. CASE ReadyAborted(w)
            BY <1>1, <2>1, <3>2 DEF TypeOK, Runs, Stopped, ReadyAborted,
               SetReady, HeldTx
        <3> QED
            BY <1>6, <3>1, <3>2
    <2>3. StageBar' = [StageBar EXCEPT ![t] = "ready"]
        BY <2>1, <2>2, BoardMove DEF Statuses, StageOf
    <2>4. Board!Repost(w, t)
        BY <1>2, <1>3, <2>1, <2>2, <2>3 DEF Board!Repost, Board!Move, StageOf
    <2> QED
        BY <2>1, <2>4, BoardBlock DEF Board!Next
<1>7. CASE TryValidationAbort(w)
    <2> USE <1>7 DEF TryValidationAbort
    <2>1. /\ ~Runs(w) /\ ~Runs(w)' /\ ~Stopped(w) /\ ~Stopped(w)'
          /\ execution_error' = execution_error
        BY DEF TypeOK, Runs, Stopped
    <2>2. CASE Finished(tx_idx[w])
        <3>1. StageBar' = [StageBar EXCEPT ![tx_idx[w]] = "waiting"]
            BY <1>1, <2>2, BoardMove DEF Statuses, StageOf
        <3>2. StageOf(status[tx_idx[w]]) = "finished"
            BY <2>2 DEF Finished, StageOf
        <3>3. Board!Repost(w, tx_idx[w])
            BY <1>1, <1>2, <1>3, <2>1, <3>1, <3>2 DEF Board!Repost, Board!Move
        <3> QED
            BY <1>1, <3>3, BoardBlock DEF Board!Next
    <2>3. CASE ~Finished(tx_idx[w])
        <3>1. Quiet(w)
            BY <2>1, <2>3, Zenon DEF Quiet
        <3> QED
            BY <3>1, QuietBoard
    <2> QED
        BY <2>2, <2>3
<1>8. CASE MarkValidated(w)
    <2> USE <1>8 DEF MarkValidated
    <2>1. /\ ~Runs(w) /\ ~Runs(w)' /\ ~Stopped(w) /\ ~Stopped(w)'
          /\ execution_error' = execution_error
        BY DEF TypeOK, Runs, Stopped
    <2>2. StageBar' = StageBar
        <3>1. CASE UNCHANGED status
            BY <3>1 DEF StageBar
        <3>2. CASE ToMark(tx_idx[w])
            <4>1. StageBar' = [StageBar EXCEPT ![tx_idx[w]] = "finished"]
                BY <1>1, <3>2, BoardMove DEF Statuses, StageOf
            <4>2. StageBar[tx_idx[w]] = "finished"
                BY <1>1, <1>2, <3>2 DEF StageOf
            <4> QED
                BY <4>1, <4>2 DEF StageBar
        <3> QED
            BY <3>1, <3>2
    <2> QED
        BY <1>3, <2>1, <2>2 DEF Board!boardVars
<1> QED
    BY <1>4, <1>5, <1>6, <1>7, <1>8 DEF StatusAction

\* A worker that met a second error stopped after a first one.
ErrorInv == \A w \in Workers : pc[w] = "error_twice" => execution_error

\* The operations by kind.
LEMMA StepKinds ==
    ASSUME NEW w \in Workers, SchedulerStep(w) \/ EnvironmentStep(w)
    PROVE  \/ QuietAction(w) \/ StatusAction(w) \/ VmExecutionError(w)
           \/ AfterTask(w) \/ LoadMinValidationIdx(w)
BY ZenonT(60) DEF SchedulerStep, EnvironmentStep, QuietAction, StatusAction

\* Only VmExecutionError gets there.
LEMMA ErrorStep ==
    ASSUME TypeOK, TypeOK', ErrorInv, NEW w \in Workers,
           SchedulerStep(w) \/ EnvironmentStep(w)
    PROVE  ErrorInv'
<1>1. Alone(w) /\ (execution_error => execution_error')
    BY OneWorker, ErrorSteps
<1>2. pc'[w] = "error_twice" => execution_error'
    <2>1. pc \in [Workers -> Labels] /\ ~Stopped(w)
        BY Guards DEF TypeOK, Stopped, SchedulerStep
    <2>2. CASE QuietAction(w)
        BY <2>1, <2>2, QuietSteps DEF Quiet, Stopped
    <2>3. CASE StatusAction(w) /\ ~ResumeDependent(w)
        <3>1. CASE LockForExecution(w) \/ AbortSelf(w) \/ SetExecuted(w)
            BY <2>1, <3>1, ZenonT(40) DEF LockForExecution, AbortSelf, SetExecuted
        <3>2. CASE TryValidationAbort(w) \/ ReadyAborted(w) \/ MarkValidated(w)
            BY <2>1, <3>2, ZenonT(40) DEF TryValidationAbort, ReadyAborted,
               MarkValidated
        <3> QED
            BY <2>3, <3>1, <3>2, Zenon DEF StatusAction
    <2>4. CASE ResumeDependent(w)
        BY <2>1, <2>4, ZenonT(40) DEF ResumeDependent, AfterDependent
    <2>5. CASE VmExecutionError(w) \/ AfterTask(w) \/ LoadMinValidationIdx(w)
        BY <2>1, <2>5 DEF VmExecutionError, AfterTask, LoadMinValidationIdx
    <2> QED
        BY <2>2, <2>3, <2>4, <2>5, StepKinds
<1> QED
    BY <1>1, <1>2 DEF ErrorInv, Alone

\* A fatal error is the failure of the board.
LEMMA ErrorBoard ==
    ASSUME TypeOK, TypeOK', ExecutorInv, NEW w \in Workers, Alone(w),
           VmExecutionError(w)
    PROVE  Board!Next
<1>1. /\ RunningBar[w] = tx_idx[w] /\ tx_idx[w] # None /\ w \notin LeftBar
    BY BlockSizeAssumption, SMTT(30) DEF VmExecutionError, TypeOK, RunningBar, LeftBar,
       Runs, Stopped, None, Txs
<1>2. /\ ~Runs(w)' /\ (Stopped(w)' <=> execution_error) /\ execution_error' = TRUE
      /\ status' = status
    BY DEF VmExecutionError, TypeOK, Runs, Stopped
<1>3. RunningBar' = [RunningBar EXCEPT ![w] = None]
    BY <1>2, BoardFrame
<1>4. LeftBar' = IF execution_error THEN LeftBar \cup {w} ELSE LeftBar
    BY <1>1, <1>2, BoardFrame
<1>5. StageBar' = StageBar
    BY <1>2 DEF StageBar
<1>6. Board!Fail(w)
    BY <1>1, <1>2, <1>3, <1>4, <1>5, BoardBlock DEF Board!Fail
<1> QED
    BY <1>6 DEF Board!Next

\* A worker that leaves does so after an error, with others still there, or
\* with every transaction finished.
LEMMA LeaveBoard ==
    ASSUME TypeOK, TypeOK', NoPanic, ErrorInv, AllFinishedAtExit',
           NEW w \in Workers, Alone(w), AfterTask(w) \/ LoadMinValidationIdx(w)
    PROVE  Board!Next \/ UNCHANGED Board!boardVars
<1>1. /\ pc \in [Workers -> Labels] /\ tx_idx'[w] = tx_idx[w]
      /\ UNCHANGED <<status, execution_error>> /\ ~Stopped(w)
    BY DEF TypeOK, AfterTask, LoadMinValidationIdx, Stopped
<1>2. CASE pc'[w] # "done"
    <2>1. Quiet(w)
        BY <1>1, <1>2 DEF Quiet, AfterTask, LoadMinValidationIdx, Runs, Stopped
    <2> QED
        BY <2>1, QuietBoard
<1>3. CASE pc'[w] = "done"
    <2>1. /\ RunningBar' = [RunningBar EXCEPT ![w] = None]
          /\ LeftBar' = LeftBar \cup {w} /\ w \notin LeftBar
          /\ StageBar' = StageBar
        BY <1>1, <1>3, BoardFrame DEF Runs, Stopped, LeftBar, StageBar
    <2>2. execution_error \/ ~Runs(w)
        BY <1>1, <1>3 DEF AfterTask, LoadMinValidationIdx, Runs
    <2>3. ASSUME ~execution_error, \A v \in Workers \ {w} : v \in LeftBar
          PROVE  \A t \in Txs : StageBar[t] = "finished"
        <3>1. \A v \in Workers \ {w} : pc[v] = "done"
            BY <2>3 DEF LeftBar, Stopped, NoPanic, ErrorInv
        <3>2. \A v \in Workers : pc'[v] = "done"
            BY <1>3, <3>1 DEF Alone
        <3>3. \A t \in Txs : Finished(t)'
            BY <1>1, <2>3, <3>2 DEF AllFinishedAtExit
        <3> QED
            BY <1>1, <3>3 DEF Finished, StageBar, StageOf
    <2>4. Board!MayLeave(w)
        <3>1. ~Runs(w) => Board!Free(w)
            BY <2>1, BoardBlock DEF Board!Free, RunningBar
        <3> QED
            BY <2>2, <2>3, <3>1, BoardBlock DEF Board!MayLeave
    <2>5. Board!Leave(w)
        BY <1>1, <2>1, <2>4, BoardBlock DEF Board!Leave
    <2> QED
        BY <2>5 DEF Board!Next
<1> QED
    BY <1>2, <1>3

\* Every step of the scheduler is a step of the board, or none.
LEMMA BoardStep ==
    ASSUME TypeOK, TypeOK', ExecutorInv, WaitInv, NoPanic, NoPanic', ErrorInv,
           AllFinishedAtExit', [Next]_vars
    PROVE  Board!Next \/ UNCHANGED Board!boardVars
<1>1. CASE UNCHANGED vars
    BY <1>1 DEF vars, Board!boardVars, StageBar, RunningBar, LeftBar, Runs, Stopped
<1>2. ASSUME NEW w \in Workers, SchedulerStep(w) \/ EnvironmentStep(w)
      PROVE  Board!Next \/ UNCHANGED Board!boardVars
    BY <1>2, OneWorker, StepKinds, QuietSteps, QuietBoard, StatusBoard,
       ErrorBoard, LeaveBoard, ZenonT(40)
<1> QED
    BY <1>1, <1>2 DEF Next, Terminated

\* The board starts with the transactions ready, or waiting for those that
\* preprocessing found.
LEMMA BoardInit == Init => Board!Init
<1> SUFFICES ASSUME Init PROVE Board!Init
    OBVIOUS
<1>1. StageBar \in [Txs -> {"ready", "waiting"}]
    BY DEF Init, StageBar, StageOf
<1>2. RunningBar = [w \in Workers |-> None] /\ LeftBar = {}
    BY DEF Init, RunningBar, LeftBar, Runs, Stopped
<1> QED
    BY <1>1, <1>2, BoardBlock DEF Init, Board!Init

\* The state of the scheduler as its theorems describe it.
BoardInv ==
    /\ TypeOK /\ NumValidatedExact /\ ExecutorInv /\ WaitInv /\ NoPanic /\ ErrorInv

\* It is an invariant.
LEMMA BoardInvCorrect == Spec => []BoardInv
<1>1. Init => BoardInv
    <2>1. Init => ExecutorInv /\ NoPanic /\ ErrorInv
        BY DEF Init, ExecutorInv, SingleExecutor, Runs, NoPanic, ErrorInv
    <2> QED
        BY <2>1, TypeInit, NumValidatedInit, WaitInit DEF BoardInv
<1>2. BoardInv /\ [Next]_vars => BoardInv'
    <2> SUFFICES ASSUME BoardInv, [Next]_vars PROVE BoardInv'
        OBVIOUS
    <2>0. TypeOK /\ NumValidatedExact /\ ExecutorInv /\ WaitInv /\ NoPanic /\ ErrorInv
        BY DEF BoardInv
    <2>1. TypeOK' /\ NumValidatedExact' /\ ExecutorInv' /\ WaitInv' /\ NoPanic'
        BY <2>0, TypeStep, NumValidatedStep, ExecutorStep, WaitStep, NoPanicStep
    <2>2. ASSUME UNCHANGED vars PROVE ErrorInv'
        BY <2>0, <2>2 DEF vars, ErrorInv
    <2>3. ASSUME NEW w \in Workers, SchedulerStep(w) \/ EnvironmentStep(w)
          PROVE  ErrorInv'
        BY <2>0, <2>1, <2>3, ErrorStep
    <2>4. ErrorInv'
        BY <2>2, <2>3, Zenon DEF Next, Terminated
    <2> QED
        BY <2>1, <2>4, Zenon DEF BoardInv
<1> QED
    BY <1>1, <1>2, PTL DEF Spec

\* The scheduler implements the board of tasks, with two workers, or with any
\* number of them when preprocessing found no dependency.
THEOREM SchedulerRefinesTaskBoard ==
    ASSUME Counted = {} \/ Cardinality(Workers) <= 2
    PROVE  Spec => ImplementsTaskBoard
<1>1. Init => Board!Init
    BY BoardInit
<1>2. BoardInv /\ BoardInv' /\ AllFinishedAtExit' /\ [Next]_vars
          => [Board!Next]_Board!boardVars
    BY BoardStep DEF BoardInv
<1>3. Spec => []BoardInv
    BY BoardInvCorrect
<1>4. Spec => []AllFinishedAtExit
    BY AllFinishedAtExitCorrect
<1> QED
    BY <1>1, <1>2, <1>3, <1>4, PTL DEF Spec, ImplementsTaskBoard, Board!Spec

=============================================================================
