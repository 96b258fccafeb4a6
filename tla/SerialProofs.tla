---------------------------- MODULE SerialProofs ----------------------------
(***************************************************************************)
(* Why the results are those of the sequential execution: theorems about   *)
(* Evm, Vm and Results alone, whatever the workers do.                     *)
(***************************************************************************)
EXTENDS Serial, WellFoundedInduction, TLAPS

-----------------------------------------------------------------------------
(***************************************************************************)
(* What the recursive functions of Block and Evm compute, and their types. *)
(***************************************************************************)

\* Facts about the indexes of a block.
LEMMA IndexFacts ==
    /\ BlockSize \in Nat /\ Txs \subseteq Nat
    /\ \A t \in Nat : t < BlockSize => t \in Txs
    /\ \A t \in Txs : t \in 0 .. BlockSize /\ t + 1 \in 0 .. BlockSize
BY BlockSizeAssumption DEF Txs

\* A set of naturals that is not empty has a least element: < is well-founded.
LEMMA LeastIndex ==
    ASSUME NEW S, S \subseteq Nat, S # {}
    PROVE  \E m \in S : \A k \in S : m <= k
<1> DEFINE R == {p \in Nat \X Nat : p[1] < p[2]}
<1>1. IsWellFoundedOn(R, Nat)
    BY NatLessThanWellFounded DEF OpToRel
<1>2. PICK m \in S : \A k \in S : <<k, m>> \notin R
    <2> HIDE DEF R
    <2> QED
        BY <1>1, WFMin, Zenon
<1>3. ASSUME NEW k \in S PROVE m <= k
    <2>1. ~(k < m)
        BY <1>2, Zenon
    <2> QED
        BY <2>1
<1> QED
    BY <1>3

USE ZenonT(60)

\* Total satisfies its equation.
LEMMA TotalEquation ==
    ASSUME NEW amount
    PROVE  /\ Total(amount)[0] = 0
           /\ \A n \in Txs : Total(amount)[n + 1] = Total(amount)[n] + amount[n]
<1> DEFINE F(g, m) == [k \in 0 .. m |-> IF k = 0 THEN 0 ELSE g[k - 1] + amount[k - 1]]
           Bad == {m \in Nat : \A g : g # F(g, m)}
<1>1. ASSUME NEW m \in Bad, \A k \in Bad : m <= k PROVE FALSE
    <2>1. CASE m = 0
        <3> DEFINE g == [k \in 0 .. 0 |-> 0]
        <3>1. g = F(g, 0)
            BY SMTT(30)
        <3> QED
            BY <1>1, <2>1, <3>1
    <2>2. CASE m # 0
        <3>1. m - 1 \in Nat /\ ~(m <= m - 1)
            BY <2>2, SMTT(30)
        <3>2. PICK g : g = F(g, m - 1)
            <4> HIDE DEF F
            <4>1. m - 1 \notin Bad
                BY <1>1, <3>1
            <4> QED
                BY <3>1, <4>1
        <3> DEFINE h == [k \in 0 .. m |-> IF k = m THEN g[m - 1] + amount[m - 1] ELSE g[k]]
        <3>3. \A k \in 0 .. (m - 1) : g[k] = IF k = 0 THEN 0 ELSE g[k - 1] + amount[k - 1]
            BY <3>2
        <3>4. \A k \in 0 .. m : k # m => k \in 0 .. (m - 1)
            BY SMTT(30)
        <3>5. \A k \in 0 .. m : k # 0 => k - 1 \in 0 .. m /\ k - 1 # m
            BY SMTT(30)
        <3>6. ASSUME NEW k \in 0 .. m
              PROVE  h[k] = IF k = 0 THEN 0 ELSE h[k - 1] + amount[k - 1]
            <4>1. CASE k = m
                BY <2>2, <3>5, <4>1
            <4>2. CASE k # m
                BY <3>3, <3>4, <3>5, <4>2
            <4> QED
                BY <4>1, <4>2
        <3>7. h = F(h, m)
            BY <3>6
        <3> QED
            BY <3>7
    <2> QED
        BY <2>1, <2>2
<1>2. Bad = {}
    BY <1>1, LeastIndex
<1>3. BlockSize \in Nat
    BY IndexFacts
<1>4. PICK g : g = F(g, BlockSize)
    <2> HIDE DEF F
    <2> QED
        BY <1>2, <1>3
<1>5. Total(amount) = F(Total(amount), BlockSize)
    BY <1>4 DEF Total
<1>6. \A n \in Txs : n + 1 \in 0 .. BlockSize /\ n + 1 # 0 /\ (n + 1) - 1 = n
    BY IndexFacts, SMTT(30)
<1>7. 0 \in 0 .. BlockSize
    BY IndexFacts, SMTT(30)
<1> HIDE DEF Bad
<1> QED
    BY <1>5, <1>6, <1>7

\* The sequential execution executes one transaction after the other.
LEMMA SequentialEquation ==
    /\ Sequential[0] = [state |-> ChainState, gas |-> 0]
    /\ \A n \in Txs : Sequential[n + 1] = Executed(n, Sequential[n])
<1> DEFINE F(g, m) == [k \in 0 .. m |-> IF k = 0 THEN [state |-> ChainState, gas |-> 0] ELSE Executed(k - 1, g[k - 1])]
           Bad == {m \in Nat : \A g : g # F(g, m)}
<1>1. ASSUME NEW m \in Bad, \A k \in Bad : m <= k PROVE FALSE
    <2>1. CASE m = 0
        <3> DEFINE g == [k \in 0 .. 0 |-> [state |-> ChainState, gas |-> 0]]
        <3>1. g = F(g, 0)
            BY SMTT(30)
        <3> QED
            BY <1>1, <2>1, <3>1
    <2>2. CASE m # 0
        <3>1. m - 1 \in Nat /\ ~(m <= m - 1)
            BY <2>2, SMTT(30)
        <3>2. PICK g : g = F(g, m - 1)
            <4> HIDE DEF F
            <4>1. m - 1 \notin Bad
                BY <1>1, <3>1
            <4> QED
                BY <3>1, <4>1
        <3> DEFINE h == [k \in 0 .. m |-> IF k = m THEN Executed(m - 1, g[m - 1]) ELSE g[k]]
        <3>3. \A k \in 0 .. (m - 1) : g[k] = IF k = 0 THEN [state |-> ChainState, gas |-> 0] ELSE Executed(k - 1, g[k - 1])
            BY <3>2
        <3>4. \A k \in 0 .. m : k # m => k \in 0 .. (m - 1)
            BY SMTT(30)
        <3>5. \A k \in 0 .. m : k # 0 => k - 1 \in 0 .. m /\ k - 1 # m
            BY SMTT(30)
        <3>6. ASSUME NEW k \in 0 .. m
              PROVE  h[k] = IF k = 0 THEN [state |-> ChainState, gas |-> 0] ELSE Executed(k - 1, h[k - 1])
            <4>1. CASE k = m
                BY <2>2, <3>5, <4>1
            <4>2. CASE k # m
                BY <3>3, <3>4, <3>5, <4>2
            <4> QED
                BY <4>1, <4>2
        <3>7. h = F(h, m)
            BY <3>6
        <3> QED
            BY <3>7
    <2> QED
        BY <2>1, <2>2
<1>2. Bad = {}
    BY <1>1, LeastIndex
<1>3. BlockSize \in Nat
    BY IndexFacts
<1>4. PICK g : g = F(g, BlockSize)
    <2> HIDE DEF F
    <2> QED
        BY <1>2, <1>3
<1>5. Sequential = F(Sequential, BlockSize)
    <2>1. Sequential = CHOOSE f : f = F(f, BlockSize)
        BY DEF Sequential
    <2> HIDE DEF F
    <2> QED
        BY <1>4, <2>1
<1>6. \A n \in Txs : n + 1 \in 0 .. BlockSize /\ n + 1 # 0 /\ (n + 1) - 1 = n
    BY IndexFacts, SMTT(30)
<1>7. 0 \in 0 .. BlockSize
    BY IndexFacts, SMTT(30)
<1> HIDE DEF Bad
<1> QED
    BY <1>5, <1>6, <1>7

\* What an access of a transaction can be.
Accessible ==
    Instructions \cup [op : {"debit", "credit", "create"}, loc : Accounts]

\* The accesses of a transaction are to locations.
LEMMA AccessesTyped ==
    ASSUME NEW t \in Txs
    PROVE  /\ Accesses(t) \in Seq(Accessible) /\ VmAccesses[t] \in Seq(Accessible)
           /\ Len(Accesses(t)) \in Nat /\ Len(VmAccesses[t]) \in Nat
<1>1. Transactions[t].code \in Seq(Accessible)
    <2>1. Transactions[t].code \in Seq(Instructions)
        BY EvmAssumption
    <2> QED
        BY <2>1, SMTT(30) DEF Accessible
<1>2. ASSUME NEW i \in Accessible PROVE <<i>> \in Seq(Accessible)
    BY SMTT(30)
<1>3. SenderAccess(t) \in Seq(Accessible)
    <2>1. [op |-> "debit", loc |-> From(t)] \in Accessible
        BY EvmAssumption DEF From, Accessible
    <2> QED
        BY <1>2, <2>1 DEF SenderAccess
<1>4. RecipientAccess(t) \in Seq(Accessible)
    <2>1. To(t) = NoAddress =>
              [op |-> "create", loc |-> Transactions[t].creates] \in Accessible
        BY EvmAssumption DEF To, Accessible
    <2>2. To(t) # NoAddress => [op |-> "credit", loc |-> To(t)] \in Accessible
        BY EvmAssumption DEF To, Accessible
    <2>3. << >> \in Seq(Accessible)
        BY SMTT(30)
    <2> QED
        BY <1>2, <2>1, <2>2, <2>3 DEF RecipientAccess
<1>5. Accesses(t) \in Seq(Accessible) /\ VmAccesses[t] \in Seq(Accessible)
    BY <1>1, <1>3, <1>4, SMTT(30) DEF VmAccesses, Accesses
<1> QED
    BY <1>5, SMTT(30)

\* A transaction does one access after the other.
LEMMA AfterEquation ==
    ASSUME NEW t \in Txs, NEW s
    PROVE  /\ After(t, s)[0] = [view |-> s, gas |-> 1]
           /\ \A k \in 1 .. Len(Accesses(t)) :
                  After(t, s)[k] = Accessed(t, Accesses(t)[k], After(t, s)[k - 1])
<1> DEFINE F(g, m) == [k \in 0 .. m |-> IF k = 0 THEN [view |-> s, gas |-> 1] ELSE Accessed(t, Accesses(t)[k], g[k - 1])]
           Bad == {m \in Nat : \A g : g # F(g, m)}
<1>1. ASSUME NEW m \in Bad, \A k \in Bad : m <= k PROVE FALSE
    <2>1. CASE m = 0
        <3> DEFINE g == [k \in 0 .. 0 |-> [view |-> s, gas |-> 1]]
        <3>1. g = F(g, 0)
            BY SMTT(30)
        <3> QED
            BY <1>1, <2>1, <3>1
    <2>2. CASE m # 0
        <3>1. m - 1 \in Nat /\ ~(m <= m - 1)
            BY <2>2, SMTT(30)
        <3>2. PICK g : g = F(g, m - 1)
            <4> HIDE DEF F
            <4>1. m - 1 \notin Bad
                BY <1>1, <3>1
            <4> QED
                BY <3>1, <4>1
        <3> DEFINE h == [k \in 0 .. m |-> IF k = m THEN Accessed(t, Accesses(t)[m], g[m - 1]) ELSE g[k]]
        <3>3. \A k \in 0 .. (m - 1) : g[k] = IF k = 0 THEN [view |-> s, gas |-> 1] ELSE Accessed(t, Accesses(t)[k], g[k - 1])
            BY <3>2
        <3>4. \A k \in 0 .. m : k # m => k \in 0 .. (m - 1)
            BY SMTT(30)
        <3>5. \A k \in 0 .. m : k # 0 => k - 1 \in 0 .. m /\ k - 1 # m
            BY SMTT(30)
        <3>6. ASSUME NEW k \in 0 .. m
              PROVE  h[k] = IF k = 0 THEN [view |-> s, gas |-> 1] ELSE Accessed(t, Accesses(t)[k], h[k - 1])
            <4>1. CASE k = m
                BY <2>2, <3>5, <4>1
            <4>2. CASE k # m
                BY <3>3, <3>4, <3>5, <4>2
            <4> QED
                BY <4>1, <4>2
        <3>7. h = F(h, m)
            BY <3>6
        <3> QED
            BY <3>7
    <2> QED
        BY <2>1, <2>2
<1>2. Bad = {}
    BY <1>1, LeastIndex
<1>3. Len(Accesses(t)) \in Nat
    BY AccessesTyped
<1>4. PICK g : g = F(g, Len(Accesses(t)))
    <2> HIDE DEF F
    <2> QED
        BY <1>2, <1>3
<1>5. After(t, s) = F(After(t, s), Len(Accesses(t)))
    BY <1>4 DEF After
<1>6. \A k \in 1 .. Len(Accesses(t)) : k \in 0 .. Len(Accesses(t)) /\ k # 0
    BY <1>3, SMTT(30)
<1>7. 0 \in 0 .. Len(Accesses(t))
    BY <1>3, SMTT(30)
<1> HIDE DEF Bad
<1> QED
    BY <1>5, <1>6, <1>7

\* Accounts and slots are told apart, and transactions are between accounts
\* (MemoryLocation of lib.rs).
LEMMA AccountFacts ==
    /\ NoAddress \notin Locs
    /\ Beneficiary \in Accounts
    /\ \A l \in Accounts : l \in Locs /\ l \notin Slots
    /\ \A l \in Slots : l \in Locs /\ l \notin Accounts
    /\ \A l \in Locs : l \in Accounts \/ l \in Slots
    /\ \A t \in Txs : From(t) \in Accounts /\ To(t) \in Accounts \cup {NoAddress}
BY EvmAssumption DEF Locs, From, To

\* The sender's is the first access; that of the recipient follows, or the code.
LEMMA AccessShapes ==
    ASSUME NEW t \in Txs
    PROVE  LET code == Transactions[t].code
               debit == [op |-> "debit", loc |-> From(t)]
               credit == [op |-> "credit", loc |-> To(t)]
               create == [op |-> "create", loc |-> Transactions[t].creates]
           IN  /\ code \in Seq(Instructions)
               /\ IF IsMaybeLazy(t)
                  THEN VmAccesses[t] = <<debit>> \o code
                  ELSE VmAccesses[t] = Accesses(t)
               /\ Accesses(t) =
                      IF To(t) = From(t) THEN <<debit>> \o code
                      ELSE IF To(t) = NoAddress THEN <<debit>> \o <<create>> \o code
                      ELSE <<debit>> \o <<credit>> \o code
<1>1. Transactions[t].code \in Seq(Instructions) /\ From(t) # NoAddress
    BY EvmAssumption, AccountFacts
<1>2. <<[op |-> "debit", loc |-> From(t)]>> \o << >> = <<[op |-> "debit", loc |-> From(t)]>>
    BY SMTT(30)
<1>3. VmAccesses[t] = IF IsMaybeLazy(t) THEN SenderAccess(t) \o Transactions[t].code ELSE Accesses(t)
    BY DEF VmAccesses
<1> QED
    BY <1>1, <1>2, <1>3 DEF SenderAccess, RecipientAccess, Accesses

\* What the accesses of the code are.
LEMMA CodeAccess ==
    ASSUME NEW t \in Txs, NEW i \in Instructions
    PROVE  /\ IsInstruction(i)
           /\ i.op \in {"add", "destroy_if_zero", "read", "reread"}
           /\ i.loc \in Locs
           /\ i.op = "add" => i.amount \in Nat
           /\ i.op = "destroy_if_zero" => i.cond \in Slots /\ i.loc \in Accounts
BY SMTT(30) DEF Instructions, IsInstruction, Locs

\* A sequence with one element, or two, put before it.
LEMMA Prepended ==
    ASSUME NEW S, NEW code \in Seq(S), NEW a, NEW b
    PROVE  /\ Len(code) \in Nat
           /\ Len(<<a>> \o code) = Len(code) + 1
           /\ Len(<<a>> \o <<b>> \o code) = Len(code) + 2
           /\ (<<a>> \o code)[1] = a
           /\ (<<a>> \o <<b>> \o code)[1] = a /\ (<<a>> \o <<b>> \o code)[2] = b
           /\ \A k \in 1 .. Len(code) :
                  /\ code[k] \in S
                  /\ (<<a>> \o code)[k + 1] = code[k]
                  /\ (<<a>> \o <<b>> \o code)[k + 2] = code[k]
<1> DEFINE T == S \cup {a, b}
<1>1. code \in Seq(T)
    BY SMTT(30)
<1>2. <<a>> \in Seq(T) /\ <<b>> \in Seq(T) /\ Len(<<a>>) = 1 /\ Len(<<b>>) = 1
    BY SMTT(30)
<1>3. /\ <<a>> \o <<b>> \in Seq(T) /\ Len(<<a>> \o <<b>>) = 2
      /\ (<<a>> \o <<b>>)[1] = a /\ (<<a>> \o <<b>>)[2] = b
    BY SMTT(30)
<1>4. \A k \in 1 .. Len(code) : code[k] \in S
    BY SMTT(30)
<1>5. ASSUME NEW p \in Seq(T)
      PROVE  /\ Len(p \o code) = Len(p) + Len(code)
             /\ \A k \in 1 .. Len(p) : (p \o code)[k] = p[k]
             /\ \A k \in 1 .. Len(code) : (p \o code)[k + Len(p)] = code[k]
    <2> HIDE DEF T
    <2> QED
        BY <1>1, SMTT(30)
<1>6. Len(code) \in Nat
    BY SMTT(30)
<1> HIDE DEF T
<1>7. 1 \in 1 .. 1 /\ 1 \in 1 .. 2 /\ 2 \in 1 .. 2 /\ <<a>>[1] = a
    BY SMTT(30)
<1> QED
    <2>1. Len(<<a>> \o code) = 1 + Len(code) /\ Len(<<a>> \o <<b>> \o code) = 2 + Len(code)
        BY <1>2, <1>3, <1>5
    <2>2. 1 + Len(code) = Len(code) + 1 /\ 2 + Len(code) = Len(code) + 2
        BY <1>6, SMTT(30)
    <2>3. /\ (<<a>> \o code)[1] = a
          /\ (<<a>> \o <<b>> \o code)[1] = a /\ (<<a>> \o <<b>> \o code)[2] = b
        BY <1>2, <1>3, <1>5, <1>7
    <2>4. ASSUME NEW k \in 1 .. Len(code)
          PROVE  (<<a>> \o code)[k + 1] = code[k] /\ (<<a>> \o <<b>> \o code)[k + 2] = code[k]
        BY <1>2, <1>3, <1>5
    <2> QED
        BY <1>4, <1>6, <2>1, <2>2, <2>3, <2>4

\* Where the accesses are: both executions begin with the sender's account, and go
\* on with the same code; the one that updates the recipient lazily leaves its
\* account out (VmDb::basic of vm.rs).
LEMMA AccessAt ==
    ASSUME NEW t \in Txs
    PROVE  /\ Len(Accesses(t)) \in Nat \ {0} /\ Len(VmAccesses[t]) \in Nat \ {0}
           /\ Accesses(t)[1] = [op |-> "debit", loc |-> From(t)]
           /\ VmAccesses[t][1] = [op |-> "debit", loc |-> From(t)]
           /\ IF IsMaybeLazy(t)
              THEN /\ Len(Accesses(t)) = Len(VmAccesses[t]) + 1
                   /\ Accesses(t)[2] = [op |-> "credit", loc |-> To(t)]
                   /\ \A k \in 2 .. Len(VmAccesses[t]) :
                          /\ VmAccesses[t][k] = Accesses(t)[k + 1]
                          /\ VmAccesses[t][k] \in Instructions
              ELSE /\ VmAccesses[t] = Accesses(t)
                   /\ Prologue(t) = 2 /\ To(t) # NoAddress =>
                          VmAccesses[t][2] = [op |-> "credit", loc |-> To(t)]
                   /\ Prologue(t) = 2 /\ To(t) = NoAddress =>
                          VmAccesses[t][2] = [op |-> "create", loc |-> Transactions[t].creates]
                   /\ \A k \in (Prologue(t) + 1) .. Len(VmAccesses[t]) :
                          /\ k - Prologue(t) \in 1 .. Len(Transactions[t].code)
                          /\ VmAccesses[t][k] = Transactions[t].code[k - Prologue(t)]
                          /\ VmAccesses[t][k] \in Instructions
PROOF
<1> DEFINE debit  == [op |-> "debit", loc |-> From(t)]
           credit == [op |-> "credit", loc |-> To(t)]
           create == [op |-> "create", loc |-> Transactions[t].creates]
           code   == Transactions[t].code
           none   == <<debit>> \o code
           paid   == <<debit>> \o <<credit>> \o code
           made   == <<debit>> \o <<create>> \o code
           Two(seq, a) ==
               /\ Len(seq) = Len(code) + 2 /\ seq[1] = debit /\ seq[2] = a
               /\ \A k \in 1 .. Len(code) : seq[k + 2] = code[k]
<1>1. /\ code \in Seq(Instructions)
      /\ IsMaybeLazy(t) => VmAccesses[t] = none /\ Accesses(t) = paid
      /\ ~IsMaybeLazy(t) => VmAccesses[t] = Accesses(t)
      /\ To(t) = From(t) => Accesses(t) = none
      /\ To(t) # From(t) /\ To(t) = NoAddress => Accesses(t) = made
      /\ To(t) # From(t) /\ To(t) # NoAddress => Accesses(t) = paid
    BY AccessShapes DEF IsMaybeLazy
<1>2. /\ Len(code) \in Nat
      /\ Len(none) = Len(code) + 1 /\ none[1] = debit
      /\ \A k \in 1 .. Len(code) : none[k + 1] = code[k] /\ code[k] \in Instructions
    <2> HIDE DEF debit, code
    <2> QED
        BY <1>1, Prepended, SMTT(30)
<1>3. Two(paid, credit)
    <2> HIDE DEF debit, code, credit
    <2> QED
        BY <1>1, Prepended, SMTT(30)
<1>4. Two(made, create)
    <2> HIDE DEF debit, code, create
    <2> QED
        BY <1>1, Prepended, SMTT(30)
<1> HIDE DEF none, paid, made, code
<1>5. Len(code) + 1 \in Nat \ {0} /\ Len(code) + 2 \in Nat \ {0} /\ Len(code) + 2 = (Len(code) + 1) + 1
    BY <1>2, SMTT(30)
<1>6. CASE IsMaybeLazy(t)
    <2>1. ASSUME NEW k \in 2 .. Len(VmAccesses[t])
          PROVE  VmAccesses[t][k] = Accesses(t)[k + 1] /\ VmAccesses[t][k] \in Instructions
        <3>1. Len(VmAccesses[t]) = Len(code) + 1 /\ Len(code) \in Nat
            BY <1>1, <1>2, <1>6
        <3>2. k - 1 \in 1 .. Len(code) /\ (k - 1) + 1 = k /\ (k - 1) + 2 = k + 1
            BY <3>1, SMTT(30)
        <3>3. none[k] = code[k - 1] /\ paid[k + 1] = code[k - 1] /\ code[k - 1] \in Instructions
            BY <1>2, <1>3, <3>2
        <3> QED
            BY <1>1, <1>6, <3>3
    <2> QED
        BY <1>1, <1>2, <1>3, <1>5, <1>6, <2>1
<1>7. CASE ~IsMaybeLazy(t)
    <2>1. CASE To(t) = From(t)
        <3>1. Prologue(t) = 1 /\ Accesses(t) = none /\ VmAccesses[t] = none
            BY <1>1, <1>7, <2>1 DEF Prologue
        <3>2. ASSUME NEW k \in 2 .. (Len(code) + 1)
              PROVE  k - 1 \in 1 .. Len(code) /\ none[k] = code[k - 1] /\ none[k] \in Instructions
            <4>1. k - 1 \in 1 .. Len(code) /\ (k - 1) + 1 = k
                BY <1>2, SMTT(30)
            <4> QED
                BY <1>2, <4>1
        <3>3. 1 + 1 = 2 /\ 1 # 2
            BY SMTT(30)
        <3> QED
            BY <1>2, <1>5, <1>7, <3>1, <3>2, <3>3 DEF code
    <2>2. CASE To(t) # From(t)
        <3>1. PICK a : /\ Two(Accesses(t), a)
                       /\ To(t) # NoAddress => a = credit
                       /\ To(t) = NoAddress => a = create
            BY <1>1, <1>3, <1>4, <2>2
        <3>2. Prologue(t) = 2 /\ VmAccesses[t] = Accesses(t)
            BY <1>1, <1>7, <2>2 DEF Prologue
        <3>3. ASSUME NEW k \in 3 .. (Len(code) + 2)
              PROVE  /\ k - 2 \in 1 .. Len(code)
                     /\ Accesses(t)[k] = code[k - 2] /\ code[k - 2] \in Instructions
            <4>1. k - 2 \in 1 .. Len(code) /\ (k - 2) + 2 = k
                BY <1>2, SMTT(30)
            <4> QED
                BY <1>2, <3>1, <4>1
        <3>4. 2 + 1 = 3
            BY SMTT(30)
        <3> QED
            BY <1>5, <1>7, <3>1, <3>2, <3>3, <3>4 DEF code
    <2> QED
        BY <2>1, <2>2
<1> QED
    BY <1>6, <1>7

\* The accesses there can be.
LEMMA AccessTyped ==
    ASSUME NEW i \in Accessible
    PROVE  \/ i.op \in {"debit", "credit", "create"} /\ i.loc \in Accounts
           \/ i.op = "add" /\ i.loc \in Accounts /\ i.loc \notin Slots /\ i.amount \in Nat
           \/ i.op = "add" /\ i.loc \in Slots /\ i.loc \notin Accounts /\ i.amount \in Nat
           \/ i.op = "destroy_if_zero" /\ i.loc \in Accounts /\ i.cond \in Slots
           \/ i.op \in {"read", "reread"} /\ i.loc \in Locs
<1>1. CASE i \in Instructions
    <2>1. CASE i \in [op : {"add"}, loc : Locs, amount : Nat]
        <3>1. i.op = "add" /\ i.loc \in Locs /\ i.amount \in Nat
            BY <2>1
        <3> QED
            BY <3>1, AccountFacts
    <2>2. CASE i \in [op : {"destroy_if_zero"}, cond : Slots, loc : Accounts]
        BY <2>2
    <2>3. CASE i \in [op : {"read", "reread"}, loc : Locs]
        BY <2>3
    <2> QED
        BY <1>1, <2>1, <2>2, <2>3 DEF Instructions
<1>2. CASE i \in [op : {"debit", "credit", "create"}, loc : Accounts]
    BY <1>2
<1> QED
    BY <1>1, <1>2 DEF Accessible

\* What an access makes of the value x of l, if the recipient is r.
ApplyAt(t, i, l, x, r) ==
    CASE i.op = "debit" ->
            IF l = i.loc
            THEN [[x EXCEPT !.balance = @ - GasLimit(t) * EffectiveGasPrice(t)
                    - (IF To(t) = From(t) THEN 0 ELSE Transactions[t].value)] EXCEPT
                  !.nonce = @ + 1]
            ELSE x
      [] i.op = "credit" ->
            IF l = i.loc THEN Credit(x, Transactions[t].value) ELSE x
      [] i.op = "create" ->
            IF l = i.loc THEN [balance |-> x.balance + Transactions[t].value,
                               nonce |-> 1, code |-> TRUE]
            ELSE x
      [] i.op = "add" /\ i.loc \in Slots -> IF l = i.loc THEN x + i.amount ELSE x
      [] i.op = "add" /\ i.loc \in Accounts ->
            LET y == IF l = To(t) THEN [x EXCEPT !.balance = @ - i.amount] ELSE x
            IN  IF l = i.loc THEN [y EXCEPT !.balance = @ + i.amount] ELSE y
      [] i.op = "destroy_if_zero" ->
            LET y == IF l = To(t) THEN Destroyed ELSE x
            IN  IF l = i.loc THEN Credit(y, r.balance) ELSE y
      [] OTHER -> x

\* An access does this to each location of a view (the journal of REVM).
LEMMA ApplyPointwise ==
    ASSUME NEW t, NEW i \in Accessible, NEW view, NEW l \in DOMAIN view
    PROVE  Apply(t, i, view)[l] = ApplyAt(t, i, l, view[l], view[To(t)])
<1>0. ~(i.loc \in Slots /\ i.loc \in Accounts)
    BY AccountFacts
<1>1. CASE i.op = "debit"
    BY <1>1 DEF Apply, ApplyAt
<1>2. CASE i.op = "credit"
    BY <1>2 DEF Apply, ApplyAt
<1>3. CASE i.op = "create"
    BY <1>3 DEF Apply, ApplyAt
<1>4. CASE i.op = "add" /\ i.loc \in Slots
    BY <1>0, <1>4 DEF Apply, ApplyAt
<1>5. CASE i.op = "add" /\ i.loc \in Accounts
    <2> DEFINE v == [view EXCEPT ![To(t)].balance = @ - i.amount]
    <2>1. Apply(t, i, view) = [v EXCEPT ![i.loc].balance = @ + i.amount]
        BY <1>0, <1>5 DEF Apply
    <2>2. DOMAIN v = DOMAIN view
        BY DEF v
    <2>3. v[l] = IF l = To(t) THEN [view[l] EXCEPT !.balance = @ - i.amount] ELSE view[l]
        BY DEF v
    <2> HIDE DEF v
    <2>4. Apply(t, i, view)[l] = IF l = i.loc THEN [v[l] EXCEPT !.balance = @ + i.amount] ELSE v[l]
        BY <2>1, <2>2
    <2> QED
        BY <1>0, <1>5, <2>3, <2>4 DEF ApplyAt
<1>6. CASE i.op = "destroy_if_zero"
    <2> DEFINE v == [view EXCEPT ![To(t)] = Destroyed]
    <2>1. Apply(t, i, view) = [v EXCEPT ![i.loc] = Credit(@, view[To(t)].balance)]
        BY <1>6 DEF Apply
    <2>2. DOMAIN v = DOMAIN view
        BY DEF v
    <2>3. v[l] = IF l = To(t) THEN Destroyed ELSE view[l]
        BY DEF v
    <2> HIDE DEF v
    <2>4. Apply(t, i, view)[l] = IF l = i.loc THEN Credit(v[l], view[To(t)].balance) ELSE v[l]
        BY <2>1, <2>2
    <2> QED
        BY <1>6, <2>3, <2>4 DEF ApplyAt
<1>7. CASE i.op \in {"read", "reread"}
    BY <1>7 DEF Apply, ApplyAt
<1> QED
    BY <1>1, <1>2, <1>3, <1>4, <1>5, <1>6, <1>7, AccessTyped

\* The view holds what the access is about, as state sv does.
Covers(t, i, view, sv) ==
    /\ DOMAIN view \subseteq DOMAIN sv
    /\ \A l \in DOMAIN view : sv[l] = view[l]
    /\ i.op \notin {"read", "reread"} => i.loc \in DOMAIN view
    /\ i.op = "destroy_if_zero" => To(t) \in DOMAIN view
    /\ i.op = "add" => To(t) \in DOMAIN view \/ To(t) \notin DOMAIN sv

\* An access does the same to the view as to all of the state.
Alike(t, i, view, sv) ==
    /\ \A l \in DOMAIN view : Apply(t, i, sv)[l] = Apply(t, i, view)[l]
    /\ \A l \in DOMAIN sv \ DOMAIN view : Apply(t, i, sv)[l] = sv[l]

\* An access does the same to such a view as to all of the state.
LEMMA ApplyCompleted ==
    ASSUME NEW t, NEW i \in Accessible, NEW view, NEW sv, Covers(t, i, view, sv)
    PROVE  Alike(t, i, view, sv)
<1> USE DEF Covers
<1>1. ASSUME NEW l \in DOMAIN view
      PROVE  Apply(t, i, sv)[l] = Apply(t, i, view)[l]
    <2>1. l \in DOMAIN sv /\ sv[l] = view[l]
        OBVIOUS
    <2>2. Apply(t, i, sv)[l] = ApplyAt(t, i, l, sv[l], sv[To(t)])
        BY <2>1, ApplyPointwise
    <2>3. Apply(t, i, view)[l] = ApplyAt(t, i, l, view[l], view[To(t)])
        BY ApplyPointwise
    <2>4. CASE i.op = "destroy_if_zero"
        <3>1. sv[To(t)] = view[To(t)]
            BY <2>4
        <3> QED
            BY <2>1, <2>2, <2>3, <3>1
    <2>5. CASE i.op # "destroy_if_zero"
        <3>1. ApplyAt(t, i, l, sv[l], sv[To(t)]) = ApplyAt(t, i, l, sv[l], view[To(t)])
            <4>1. CASE i.op \in {"debit", "credit", "create"}
                BY <4>1 DEF ApplyAt
            <4>2. CASE i.op = "add" /\ i.loc \in Slots /\ i.loc \notin Accounts
                BY <4>2 DEF ApplyAt
            <4>3. CASE i.op = "add" /\ i.loc \in Accounts /\ i.loc \notin Slots
                BY <4>3 DEF ApplyAt
            <4>4. CASE i.op \in {"read", "reread"}
                BY <4>4 DEF ApplyAt
            <4> QED
                BY <2>5, <4>1, <4>2, <4>3, <4>4, AccessTyped
        <3> QED
            BY <2>1, <2>2, <2>3, <3>1
    <2> QED
        BY <2>4, <2>5
<1>2. ASSUME NEW l \in DOMAIN sv, l \notin DOMAIN view
      PROVE  Apply(t, i, sv)[l] = sv[l]
    <2>1. ApplyAt(t, i, l, sv[l], sv[To(t)]) = sv[l]
        <3>1. CASE i.op \in {"read", "reread"}
            BY <3>1 DEF ApplyAt
        <3>2. CASE i.op \in {"debit", "credit", "create"}
            BY <1>2, <3>2 DEF ApplyAt
        <3>3. CASE i.op \in {"add", "destroy_if_zero"}
            <4>1. l # i.loc /\ l # To(t)
                BY <1>2, <3>3
            <4> QED
                BY <3>3, <4>1, AccessTyped DEF ApplyAt
        <3> QED
            BY <3>1, <3>2, <3>3, AccessTyped
    <2> QED
        BY <1>2, <2>1, ApplyPointwise
<1> QED
    BY <1>1, <1>2 DEF Alike

\* An account that is credited is an account.
LEMMA CreditTyped ==
    ASSUME NEW x \in Account, NEW n \in Int
    PROVE  Credit(x, n) \in Account
BY SMTT(30) DEF Credit, Account

\* Gas prices are natural numbers.
LEMMA PriceTyped ==
    ASSUME NEW t \in Txs
    PROVE  /\ GasLimit(t) \in Nat /\ EffectiveGasPrice(t) \in Nat /\ Transactions[t].value \in Nat
           /\ GasLimit(t) * EffectiveGasPrice(t) \in Int
<1>1. /\ Transactions[t].gas_limit \in Nat /\ Transactions[t].gas_price \in Nat
      /\ Transactions[t].priority = NoPriority \/ Transactions[t].priority \in Nat
      /\ BaseFee \in Nat /\ Transactions[t].value \in Nat
    BY AmountsAssumption
<1>2. \A a, b \in Nat : a * b \in Int /\ Lower(a, b) \in Nat /\ a + b \in Nat
    BY SMTT(30) DEF Lower
<1> QED
    BY <1>1, <1>2 DEF GasLimit, EffectiveGasPrice

\* The access of a value in a state leaves a value of its type.
LEMMA ApplyAtTyped ==
    ASSUME NEW t \in Txs, NEW i \in Accessible, NEW l \in Locs, NEW x, NEW r,
           l \in Accounts => x \in Account, l \in Slots => x \in Int,
           i.op = "destroy_if_zero" => r \in Account,
           To(t) \notin Slots
    PROVE  /\ l \in Accounts => ApplyAt(t, i, l, x, r) \in Account
           /\ l \in Slots => ApplyAt(t, i, l, x, r) \in Int
<1>1. CASE i.op = "debit"
    <2> DEFINE cost == GasLimit(t) * EffectiveGasPrice(t)
               value == Transactions[t].value
    <2>1. cost \in Int /\ value \in Int
        <3>1. \A n \in Nat : n \in Int
            BY SMTT(30)
        <3> QED
            BY <3>1, PriceTyped
    <2>2. i.loc \in Accounts /\ i.loc \notin Slots
        BY <1>1, AccessTyped, AccountFacts
    <2>3. ApplyAt(t, i, l, x, r) =
            IF l = i.loc
            THEN [[x EXCEPT !.balance = @ - cost - (IF To(t) = From(t) THEN 0 ELSE value)]
                    EXCEPT !.nonce = @ + 1]
            ELSE x
        BY <1>1 DEF ApplyAt
    <2>4. ASSUME NEW z \in Account, NEW c \in Int, NEW v \in Int
          PROVE  /\ [z EXCEPT !.balance = @ - c - v] \in Account
                 /\ [z EXCEPT !.nonce = @ + 1] \in Account
        BY SMTT(30) DEF Account
    <2>5. (IF To(t) = From(t) THEN 0 ELSE value) \in Int
        BY <2>1, SMTT(30)
    <2> DEFINE v == IF To(t) = From(t) THEN 0 ELSE value
               y == [x EXCEPT !.balance = @ - cost - v]
    <2> HIDE DEF cost, v
    <2>6. l \in Accounts => y \in Account
        BY <2>1, <2>4, <2>5 DEF v
    <2>7. ApplyAt(t, i, l, x, r) = IF l = i.loc THEN [y EXCEPT !.nonce = @ + 1] ELSE x
        BY <2>3 DEF v
    <2> HIDE DEF y
    <2> QED
        BY <2>1, <2>2, <2>4, <2>6, <2>7
<1>2. CASE i.op = "credit"
    <2>1. Transactions[t].value \in Int
        BY PriceTyped, SMTT(30)
    <2>2. i.loc \in Accounts /\ i.loc \notin Slots
        BY <1>2, AccessTyped, AccountFacts
    <2>3. ApplyAt(t, i, l, x, r) = IF l = i.loc THEN Credit(x, Transactions[t].value) ELSE x
        BY <1>2 DEF ApplyAt
    <2> QED
        BY <2>1, <2>2, <2>3, CreditTyped
<1>3. CASE i.op = "create"
    <2>1. Transactions[t].value \in Int
        BY PriceTyped, SMTT(30)
    <2>2. i.loc \in Accounts /\ i.loc \notin Slots
        BY <1>3, AccessTyped, AccountFacts
    <2>3. ApplyAt(t, i, l, x, r) =
            IF l = i.loc THEN [balance |-> x.balance + Transactions[t].value,
                               nonce |-> 1, code |-> TRUE]
            ELSE x
        BY <1>3 DEF ApplyAt
    <2>4. ASSUME x \in Account, NEW v \in Int
          PROVE  [balance |-> x.balance + v, nonce |-> 1, code |-> TRUE] \in Account
        BY <2>4, SMTT(30) DEF Account
    <2> QED
        BY <2>1, <2>2, <2>3, <2>4
<1>4. CASE i.op = "add" /\ i.loc \in Slots
    <2>1. i.amount \in Int /\ i.loc \notin Accounts
        BY <1>4, AccessTyped, AccountFacts, SMTT(30)
    <2>2. ApplyAt(t, i, l, x, r) = IF l = i.loc THEN x + i.amount ELSE x
        BY <1>4, <2>1 DEF ApplyAt
    <2>3. \A a, b \in Int : a + b \in Int
        BY SMTT(30)
    <2> QED
        BY <1>4, <2>1, <2>2, <2>3
<1>5. CASE i.op = "add" /\ i.loc \in Accounts
    <2> DEFINE y == IF l = To(t) THEN [x EXCEPT !.balance = @ - i.amount] ELSE x
    <2>1. i.amount \in Nat /\ i.loc \notin Slots
        BY <1>5, AccessTyped, AccountFacts
    <2>2. ApplyAt(t, i, l, x, r) =
              IF l = i.loc THEN [y EXCEPT !.balance = @ + i.amount] ELSE y
        BY <1>5, <2>1 DEF ApplyAt
    <2>3. ASSUME NEW z \in Account
          PROVE  /\ [z EXCEPT !.balance = @ + i.amount] \in Account
                 /\ [z EXCEPT !.balance = @ - i.amount] \in Account
        BY <2>1, SMTT(30) DEF Account
    <2>4. (l \in Accounts => y \in Account) /\ (l \in Slots => y \in Int)
        BY <2>3
    <2> HIDE DEF y
    <2> QED
        BY <2>1, <2>2, <2>3, <2>4
<1>6. CASE i.op = "destroy_if_zero"
    <2> DEFINE y == IF l = To(t) THEN Destroyed ELSE x
    <2>1. i.loc \in Accounts /\ i.loc \notin Slots
        BY <1>6, AccessTyped, AccountFacts
    <2>2. ApplyAt(t, i, l, x, r) = IF l = i.loc THEN Credit(y, r.balance) ELSE y
        BY <1>6 DEF ApplyAt
    <2>3. Destroyed \in Account /\ r.balance \in Int
        BY <1>6, SMTT(30) DEF Account, Destroyed
    <2>4. (l \in Accounts => y \in Account) /\ (l \in Slots => y \in Int)
        BY <2>3
    <2> HIDE DEF y
    <2> QED
        BY <2>1, <2>2, <2>3, <2>4, CreditTyped
<1>7. CASE i.op \in {"read", "reread"}
    BY <1>7 DEF ApplyAt
<1> QED
    BY <1>1, <1>2, <1>3, <1>4, <1>5, <1>6, <1>7, AccessTyped

\* An access takes a function to a function.
LEMMA ApplyFunction ==
    ASSUME NEW t, NEW i \in Accessible, 
           NEW view \in [Locs -> Account \cup Int]
    PROVE  Apply(t, i, view) = [l \in Locs |-> Apply(t, i, view)[l]]
<1>0. ~(i.loc \in Slots /\ i.loc \in Accounts)
    BY AccountFacts
<1>1. CASE i.op = "debit"
    BY <1>1 DEF Apply
<1>2. CASE i.op = "credit"
    BY <1>2 DEF Apply
<1>3. CASE i.op = "create"
    BY <1>3 DEF Apply
<1>4. CASE i.op = "add" /\ i.loc \in Slots
    BY <1>0, <1>4 DEF Apply
<1>5. CASE i.op = "add" /\ i.loc \in Accounts
    BY <1>0, <1>5 DEF Apply
<1>6. CASE i.op = "destroy_if_zero"
    BY <1>6 DEF Apply
<1>7. CASE i.op \in {"read", "reread"}
    BY <1>7 DEF Apply
<1> QED
    BY <1>1, <1>2, <1>3, <1>4, <1>5, <1>6, <1>7, AccessTyped

\* An access takes a state to a state.
LEMMA ApplyTyped ==
    ASSUME NEW t \in Txs, NEW i \in Accessible, NEW s \in States,
           i.op = "destroy_if_zero" => To(t) \in Accounts
    PROVE  Apply(t, i, s) \in States
<1>1. s \in [Locs -> Account \cup Int] /\ DOMAIN s = Locs
    BY DEF States
<1>2. Apply(t, i, s) = [l \in Locs |-> Apply(t, i, s)[l]]
    BY <1>1, ApplyFunction
<1>3. To(t) \notin Slots
    BY AccountFacts
<1>4. ASSUME NEW l \in Locs
      PROVE  /\ l \in Accounts => Apply(t, i, s)[l] \in Account
             /\ l \in Slots => Apply(t, i, s)[l] \in Int
    <2>1. Apply(t, i, s)[l] = ApplyAt(t, i, l, s[l], s[To(t)])
        BY <1>1, ApplyPointwise
    <2>2. (l \in Accounts => s[l] \in Account) /\ (l \in Slots => s[l] \in Int)
        BY DEF States
    <2>3. i.op = "destroy_if_zero" => s[To(t)] \in Account
        BY DEF States
    <2> QED
        BY <1>3, <2>1, <2>2, <2>3, ApplyAtTyped
<1> QED
    BY <1>2, <1>4, AccountFacts DEF States

\* The fields of what an execution leaves.
LEMMA Outcomes ==
    ASSUME NEW f, NEW x, NEW y
    PROVE  /\ f = [view |-> x, gas |-> y] => f.view = x /\ f.gas = y
           /\ f = [state |-> x, gas |-> y] => f.state = x /\ f.gas = y
BY SMTT(30)

\* Only the code of a contract destroys it, if a slot that the code has accessed
\* before is zero.
LEMMA DestroyAccess ==
    ASSUME NEW t \in Txs, NEW k \in 1 .. Len(Accesses(t)),
           Accesses(t)[k].op = "destroy_if_zero"
    PROVE  /\ To(t) \in Accounts
           /\ ~IsMaybeLazy(t) =>
                  /\ k > Prologue(t)
                  /\ \E j \in (Prologue(t) + 1) .. (k - 1) :
                         /\ Accesses(t)[j].op \in {"add", "read"}
                         /\ Accesses(t)[j].loc = Accesses(t)[k].cond
<1>1. CASE IsMaybeLazy(t)
    BY <1>1, AccountFacts DEF IsMaybeLazy
<1>2. CASE ~IsMaybeLazy(t)
    <2> DEFINE p == Prologue(t)
               code == Transactions[t].code
    <2>1. /\ VmAccesses[t] = Accesses(t) /\ Len(Accesses(t)) \in Nat
          /\ Accesses(t)[1].op = "debit"
          /\ p = 2 => Accesses(t)[2].op \in {"credit", "create"}
          /\ \A j \in (p + 1) .. Len(Accesses(t)) :
                 j - p \in 1 .. Len(code) /\ Accesses(t)[j] = code[j - p]
        <3>1. /\ VmAccesses[t] = Accesses(t) /\ Len(Accesses(t)) \in Nat
              /\ Accesses(t)[1] = [op |-> "debit", loc |-> From(t)]
              /\ p = 2 /\ To(t) # NoAddress =>
                     Accesses(t)[2] = [op |-> "credit", loc |-> To(t)]
              /\ p = 2 /\ To(t) = NoAddress =>
                     Accesses(t)[2] = [op |-> "create", loc |-> Transactions[t].creates]
            BY <1>2, AccessAt
        <3>2. \A j \in (p + 1) .. Len(VmAccesses[t]) :
                 j - p \in 1 .. Len(code) /\ VmAccesses[t][j] = code[j - p]
            BY <1>2, AccessAt
        <3>3. /\ Accesses(t)[1].op = "debit"
              /\ p = 2 => Accesses(t)[2].op \in {"credit", "create"}
            BY <3>1, SMTT(30)
        <3> QED
            BY <3>1, <3>2, <3>3
    <2>2. p \in {1, 2}
        BY DEF Prologue
    <2> HIDE DEF p
    <2>3. k \in (p + 1) .. Len(Accesses(t)) /\ k > p
        <3>1. k # 1 /\ (p = 2 => k # 2)
            BY <2>1
        <3> QED
            BY <2>1, <2>2, <3>1, SMTT(30)
    <2>4. k - p \in 1 .. Len(code) /\ Accesses(t)[k] = code[k - p]
        BY <2>1, <2>3
    <2>5. Tested(t, k - p)
        BY <2>4, EvmAssumption
    <2>6. PICK j \in 1 .. ((k - p) - 1) :
              code[j].op \in {"add", "read"} /\ code[j].loc = code[k - p].cond
        BY <2>5 DEF Tested
    <2>7. j + p \in (p + 1) .. (k - 1) /\ j + p \in (p + 1) .. Len(Accesses(t)) /\ (j + p) - p = j
        BY <2>1, <2>2, SMTT(30)
    <2>8. Accesses(t)[j + p] = code[j]
        BY <2>1, <2>7
    <2>9. To(t) \in Accounts
        BY <2>5, AccountFacts DEF Tested, To
    <2> QED
        BY <2>3, <2>4, <2>6, <2>7, <2>8, <2>9 DEF p
<1> QED
    BY <1>1, <1>2

\* Transactions take states to states.
LEMMA AfterTyped ==
    ASSUME NEW t \in Txs, NEW s \in States, NEW k \in 0 .. Len(Accesses(t))
    PROVE  After(t, s)[k].view \in States /\ After(t, s)[k].gas \in Nat
<1> DEFINE Typed(n) == After(t, s)[n].view \in States /\ After(t, s)[n].gas \in Nat
           Bad == {n \in Nat : n \in 0 .. Len(Accesses(t)) /\ ~Typed(n)}
<1>1. ASSUME NEW n \in Bad, \A j \in Bad : n <= j PROVE FALSE
    <2>1. n # 0
        <3>1. After(t, s)[0] = [view |-> s, gas |-> 1]
            BY AfterEquation
        <3>2. 1 \in Nat
            BY SMTT(30)
        <3>3. After(t, s)[0].view = s /\ After(t, s)[0].gas = 1
            BY <3>1, Outcomes
        <3>4. Typed(0)
            BY <3>2, <3>3
        <3> HIDE DEF Typed
        <3> QED
            BY <3>4
    <2>2. Len(Accesses(t)) \in Nat
        BY AccessesTyped
    <2>3. /\ n \in 1 .. Len(Accesses(t)) /\ n - 1 \in 0 .. Len(Accesses(t))
          /\ n - 1 \in Nat /\ ~(n <= n - 1)
        BY <2>1, <2>2, SMTT(30)
    <2>4. n - 1 \notin Bad
        BY <1>1, <2>3
    <2> DEFINE before == After(t, s)[n - 1]
               i == Accesses(t)[n]
    <2>5. before.view \in States /\ before.gas \in Nat
        BY <2>3, <2>4
    <2>6. After(t, s)[n] = Accessed(t, i, before)
        BY <2>3, AfterEquation
    <2>7. i \in Accessible
        BY <2>3, AccessesTyped, SMTT(30)
    <2>8. i.op = "destroy_if_zero" => To(t) \in Accounts
        BY <2>3, DestroyAccess
    <2>9. before.gas + GasOf(i) \in Nat
        BY <2>5, SMTT(30) DEF GasOf
    <2> HIDE DEF before, i
    <2>10. Apply(t, i, before.view) \in States
        BY <2>5, <2>7, <2>8, ApplyTyped
    <2>11. Typed(n)
        <3>1. CASE Skipped(t, i, before.view)
            BY <2>5, <2>6, <3>1 DEF Accessed
        <3>2. CASE ~Skipped(t, i, before.view)
            <4>1. After(t, s)[n] = [view |-> Apply(t, i, before.view), gas |-> before.gas + GasOf(i)]
                BY <2>6, <3>2 DEF Accessed
            <4>2. /\ After(t, s)[n].view = Apply(t, i, before.view)
                  /\ After(t, s)[n].gas = before.gas + GasOf(i)
                BY <4>1, Outcomes
            <4> QED
                BY <2>9, <2>10, <4>2, SMTT(30)
        <3> QED
            BY <3>1, <3>2
    <2> QED
        BY <2>11
<1> HIDE DEF Typed
<1>2. Bad = {}
    BY <1>1, LeastIndex
<1>3. k \in Nat
    BY AccessesTyped, SMTT(30)
<1> QED
    BY <1>2, <1>3 DEF Typed

\* What the beneficiary gets is a number, and what the sender gets back.
LEMMA TipTyped ==
    ASSUME NEW t \in Txs, NEW gas \in Nat
    PROVE  /\ Tip(t) \in Int /\ Tip(t) * gas \in Int
           /\ (GasLimit(t) - gas) * EffectiveGasPrice(t) \in Int
<1>1. Tip(t) \in Int
    <2>1. EffectiveGasPrice(t) \in Nat /\ BaseFee \in Nat
        BY PriceTyped, AmountsAssumption
    <2>2. \A a, b \in Nat : a - b \in Int /\ a - 0 \in Int
        BY SMTT(30)
    <2> QED
        BY <2>1, <2>2 DEF Tip
<1>2. \A a \in Int : a * gas \in Int
    BY SMTT(30)
<1>3. \A a, b \in Nat : (a - gas) * b \in Int
    BY SMTT(30)
<1> QED
    BY <1>1, <1>2, <1>3, PriceTyped

\* A state in which one account is credited.
LEMMA CreditedTyped ==
    ASSUME NEW s \in States, NEW a \in Accounts, NEW n \in Int
    PROVE  [s EXCEPT ![a] = Credit(@, n)] \in States
<1> DEFINE c == [s EXCEPT ![a] = Credit(@, n)]
<1>1. /\ s \in [Locs -> Account \cup Int]
      /\ \A l \in Accounts : s[l] \in Account
      /\ \A l \in Slots : s[l] \in Int
    BY DEF States
<1>2. Credit(s[a], n) \in Account
    BY <1>1, CreditTyped
<1>3. c \in [Locs -> Account \cup Int]
    BY <1>1, <1>2, AccountFacts
<1>4. \A l \in Locs : c[l] = IF l = a THEN Credit(s[a], n) ELSE s[l]
    BY <1>1
<1> HIDE DEF c
<1>5. c \in States
    BY <1>1, <1>2, <1>3, <1>4, AccountFacts DEF States
<1> QED
    BY <1>5 DEF c

\* The sequential execution goes from state to state.
LEMMA SequentialTyped ==
    ASSUME NEW n \in 0 .. BlockSize
    PROVE  SequentialState(n) \in States /\ CumulativeGas(n) \in Nat
<1> DEFINE Typed(k) == Sequential[k].state \in States /\ Sequential[k].gas \in Nat
           Bad == {k \in Nat : k \in 0 .. BlockSize /\ ~Typed(k)}
<1>1. ASSUME NEW k \in Bad, \A j \in Bad : k <= j PROVE FALSE
    <2>1. k # 0
        <3>1. Sequential[0] = [state |-> ChainState, gas |-> 0]
            BY SequentialEquation
        <3>2. 0 \in Nat
            BY SMTT(30)
        <3>3. ChainState \in States
            BY AmountsAssumption, AccountFacts DEF States
        <3>4. Sequential[0].state = ChainState /\ Sequential[0].gas = 0
            BY <3>1, Outcomes
        <3>5. Typed(0)
            BY <3>2, <3>3, <3>4
        <3> HIDE DEF Typed
        <3> QED
            BY <3>5
    <2>2. /\ k - 1 \in Txs /\ k - 1 \in 0 .. BlockSize /\ k - 1 \in Nat
          /\ ~(k <= k - 1) /\ (k - 1) + 1 = k
        BY <2>1, IndexFacts, SMTT(30) DEF Txs
    <2>3. k - 1 \notin Bad
        BY <1>1, <2>2
    <2> DEFINE t == k - 1
               before == Sequential[t]
               final == RunFrom(t, before.state)
               paid == Refund(t, final.gas, final.view)
    <2>4. before.state \in States /\ before.gas \in Nat
        BY <2>2, <2>3
    <2>5. final.view \in States /\ final.gas \in Nat
        <3>1. Len(Accesses(t)) \in 0 .. Len(Accesses(t))
            BY <2>2, AccessesTyped, SMTT(30)
        <3> QED
            BY <2>2, <2>4, <3>1, AfterTyped DEF RunFrom
    <2>6. Sequential[k] = Executed(t, before)
        BY <2>2, SequentialEquation
    <2> HIDE DEF t, before, final
    <2>7. t \in Txs
        BY <2>2 DEF t
    <2>8. Executed(t, before) =
            [state |-> [paid EXCEPT ![Beneficiary] = Credit(@, Tip(t) * final.gas)],
             gas   |-> before.gas + final.gas]
        BY DEF Executed, final
    <2>9. paid \in States
        BY <2>5, <2>7, TipTyped, CreditedTyped, AccountFacts DEF Refund
    <2>10. [paid EXCEPT ![Beneficiary] = Credit(@, Tip(t) * final.gas)] \in States
        BY <2>5, <2>7, <2>9, TipTyped, CreditedTyped, AccountFacts
    <2>11. before.gas + final.gas \in Nat
        BY <2>4, <2>5, SMTT(30)
    <2>12. Typed(k)
        <3> DEFINE state == [paid EXCEPT ![Beneficiary] = Credit(@, Tip(t) * final.gas)]
        <3>1. Sequential[k] = [state |-> state, gas |-> before.gas + final.gas]
            BY <2>6, <2>8
        <3> HIDE DEF state
        <3>2. Sequential[k].state = state /\ Sequential[k].gas = before.gas + final.gas
            BY <3>1, SMTT(30)
        <3>3. state \in States
            BY <2>10 DEF state
        <3> QED
            BY <2>11, <3>2, <3>3, SMTT(30)
    <2> HIDE DEF Typed
    <2> QED
        BY <2>12
<1> HIDE DEF Typed
<1>2. Bad = {}
    BY <1>1, LeastIndex
<1>3. n \in Nat
    BY IndexFacts, SMTT(30)
<1> QED
    BY <1>2, <1>3 DEF Typed, SequentialState, CumulativeGas

-----------------------------------------------------------------------------
(***************************************************************************)
(* Vm executes a transaction as Evm does, one access after the other.      *)
(***************************************************************************)

\* One step of the sequential execution.
LEMMA AfterStep ==
    ASSUME NEW t \in Txs, NEW s, NEW k \in 1 .. Len(Accesses(t))
    PROVE  LET before == After(t, s)[k - 1]
               i      == Accesses(t)[k]
           IN  IF Skipped(t, i, before.view)
               THEN After(t, s)[k] = before
               ELSE /\ After(t, s)[k].view = Apply(t, i, before.view)
                    /\ After(t, s)[k].gas = before.gas + GasOf(i)
<1> DEFINE before == After(t, s)[k - 1]
           i      == Accesses(t)[k]
<1>1. After(t, s)[k] = Accessed(t, i, before)
    BY AfterEquation
<1> HIDE DEF before, i
<1>2. CASE Skipped(t, i, before.view)
    BY <1>1, <1>2 DEF Accessed, before, i
<1>3. CASE ~Skipped(t, i, before.view)
    <2>1. After(t, s)[k] = [view |-> Apply(t, i, before.view), gas |-> before.gas + GasOf(i)]
        BY <1>1, <1>3 DEF Accessed
    <2>2. /\ After(t, s)[k].view = Apply(t, i, before.view)
          /\ After(t, s)[k].gas = before.gas + GasOf(i)
        BY <2>1, SMTT(30)
    <2> QED
        BY <1>3, <2>2 DEF before, i
<1> QED
    BY <1>2, <1>3

\* An access is skipped in the journal if it is in the state.
LEMMA SkippedSame ==
    ASSUME NEW t \in Txs, ~IsMaybeLazy(t), NEW n \in Nat, n < Len(VmAccesses[t]),
           NEW values, NEW view, Journal(t, n, values, view), Noted(t, n, view),
           NEW sv, DOMAIN sv = Locs, \A l \in DOMAIN view : sv[l] = view[l],
           DOMAIN view \subseteq Locs
    PROVE  LET i == VmAccesses[t][n + 1]
           IN  Skipped(t, i, view) <=> Skipped(t, i, sv)
<1> DEFINE i == VmAccesses[t][n + 1]
           p == Prologue(t)
<1>1. Len(VmAccesses[t]) \in Nat /\ VmAccesses[t] = Accesses(t)
    BY AccessAt
<1>2. p \in {1, 2}
    BY DEF Prologue
<1>3. CASE IsInstruction(i)
    <2>1. n + 1 # 1 /\ (p = 2 => n + 1 # 2)
        <3>1. /\ VmAccesses[t][1] = [op |-> "debit", loc |-> From(t)]
              /\ p = 2 /\ To(t) # NoAddress =>
                     VmAccesses[t][2] = [op |-> "credit", loc |-> To(t)]
              /\ p = 2 /\ To(t) = NoAddress =>
                     VmAccesses[t][2] = [op |-> "create", loc |-> Transactions[t].creates]
            BY AccessAt
        <3>2. VmAccesses[t][1].op = "debit" /\ (p = 2 => VmAccesses[t][2].op \in {"credit", "create"})
            BY <3>1, SMTT(30)
        <3> QED
            BY <1>3, <3>2 DEF IsInstruction
    <2> HIDE DEF p
    <2>2. n >= p
        BY <1>2, <2>1, SMTT(30)
    <2>3. To(t) \in DOMAIN view \/ To(t) = NoAddress
        BY <2>2 DEF Journal, p
    <2>4. HasCode(t, view) <=> HasCode(t, sv)
        BY <2>3 DEF HasCode
    <2>5. i.op = "destroy_if_zero" /\ HasCode(t, view) => view[i.cond] = sv[i.cond]
        <3> SUFFICES ASSUME i.op = "destroy_if_zero", HasCode(t, view)
                     PROVE  i.cond \in DOMAIN view
            OBVIOUS
        <3>1. n + 1 \in 1 .. Len(Accesses(t)) /\ (n + 1) - 1 = n
            BY <1>1, SMTT(30)
        <3>4. Accesses(t)[n + 1].op = "destroy_if_zero" /\ Accesses(t)[n + 1].cond = i.cond
            BY <1>1
        <3>5. \E j \in (Prologue(t) + 1) .. ((n + 1) - 1) :
                  /\ Accesses(t)[j].op \in {"add", "read"}
                  /\ Accesses(t)[j].loc = Accesses(t)[n + 1].cond
            BY <3>1, <3>4, DestroyAccess
        <3>2. PICK j \in (p + 1) .. n : /\ Accesses(t)[j].op \in {"add", "read"}
                                        /\ Accesses(t)[j].loc = i.cond
            BY <3>1, <3>4, <3>5 DEF p
        <3>3. j \in 1 .. n
            BY <1>2, SMTT(30)
        <3> QED
            BY <1>1, <3>2, <3>3 DEF Noted
    <2> QED
        BY <2>4, <2>5 DEF Skipped
<1>4. CASE ~IsInstruction(i)
    BY <1>4 DEF Skipped
<1> QED
    BY <1>3, <1>4

\* The next access of the VM is the next one of the sequential execution, but for
\* the lazy recipient's.
LEMMA NextAccess ==
    ASSUME NEW t \in Txs, NEW n \in Nat, n < Len(VmAccesses[t])
    PROVE  LET i == VmAccesses[t][n + 1]
           IN  /\ i \in Accessible
               /\ IsInstruction(i) => n # 0 /\ (~IsMaybeLazy(t) => n >= Prologue(t))
               /\ i.op = "destroy_if_zero" => To(t) \in Accounts
               /\ n # 0 /\ IsMaybeLazy(t) => IsInstruction(i)
               /\ n = 0 => i = [op |-> "debit", loc |-> From(t)]
               /\ n # 0 \/ ~IsMaybeLazy(t) =>
                      /\ Reached(t, n) + 1 \in 1 .. Len(Accesses(t))
                      /\ (Reached(t, n) + 1) - 1 = Reached(t, n)
                      /\ Accesses(t)[Reached(t, n) + 1] = i
                      /\ Reached(t, n + 1) = Reached(t, n) + 1
<1> DEFINE i == VmAccesses[t][n + 1]
           p == Prologue(t)
<1>1. /\ Len(VmAccesses[t]) \in Nat /\ Len(Accesses(t)) \in Nat
      /\ VmAccesses[t][1] = [op |-> "debit", loc |-> From(t)]
      /\ ~IsMaybeLazy(t) =>
             /\ p = 2 /\ To(t) # NoAddress =>
                     VmAccesses[t][2] = [op |-> "credit", loc |-> To(t)]
             /\ p = 2 /\ To(t) = NoAddress =>
                     VmAccesses[t][2] = [op |-> "create", loc |-> Transactions[t].creates]
    BY AccessAt
<1>2. VmAccesses[t][1].op = "debit"
    BY <1>1, SMTT(30)
<1>3. ~IsMaybeLazy(t) /\ p = 2 => VmAccesses[t][2].op \in {"credit", "create"}
    BY <1>1, SMTT(30)
<1>4. i \in Accessible
    BY AccessesTyped, SMTT(30)
<1>5. p \in {1, 2}
    BY DEF Prologue
<1>6. n = 0 => i = [op |-> "debit", loc |-> From(t)]
    <2>1. n = 0 => n + 1 = 1
        BY SMTT(30)
    <2> QED
        BY <1>1, <2>1
<1>7. IsInstruction(i) => n # 0 /\ (~IsMaybeLazy(t) => n >= p)
    <2>1. IsInstruction(i) => n + 1 # 1 /\ (~IsMaybeLazy(t) /\ p = 2 => n + 1 # 2)
        BY <1>2, <1>3 DEF IsInstruction
    <2> HIDE DEF p
    <2> QED
        BY <1>5, <2>1, SMTT(30)
<1>8. n # 0 /\ IsMaybeLazy(t) =>
          /\ IsInstruction(i) /\ i = Accesses(t)[(n + 1) + 1]
          /\ Len(Accesses(t)) = Len(VmAccesses[t]) + 1
    <2>1. n # 0 => n + 1 \in 2 .. Len(VmAccesses[t])
        BY <1>1, SMTT(30)
    <2>2. n # 0 /\ IsMaybeLazy(t) => i \in Instructions /\ i = Accesses(t)[(n + 1) + 1]
        BY <2>1, AccessAt
    <2> QED
        BY <2>2, AccessAt, CodeAccess
<1>9. ~IsMaybeLazy(t) => VmAccesses[t] = Accesses(t)
    BY AccessAt
<1>10. n # 0 \/ ~IsMaybeLazy(t) =>
                      /\ Reached(t, n) + 1 \in 1 .. Len(Accesses(t))
                      /\ (Reached(t, n) + 1) - 1 = Reached(t, n)
                      /\ Accesses(t)[Reached(t, n) + 1] = i
                      /\ Reached(t, n + 1) = Reached(t, n) + 1
    <2>1. CASE IsMaybeLazy(t) /\ n # 0
        <3>1. n > 0 /\ n + 1 > 0
            BY <2>1, SMTT(30)
        <3>2. Reached(t, n) = n + 1 /\ Reached(t, n + 1) = (n + 1) + 1
            BY <2>1, <3>1 DEF Reached
        <3>3. (n + 1) + 1 \in 1 .. Len(Accesses(t)) /\ ((n + 1) + 1) - 1 = n + 1
            BY <1>1, <1>8, <2>1, SMTT(30)
        <3> QED
            BY <1>8, <2>1, <3>2, <3>3
    <2>2. CASE ~IsMaybeLazy(t)
        <3>1. Reached(t, n) = n /\ Reached(t, n + 1) = n + 1
            BY <2>2 DEF Reached
        <3>2. n + 1 \in 1 .. Len(VmAccesses[t]) /\ (n + 1) - 1 = n
            BY <1>1, SMTT(30)
        <3> QED
            BY <1>9, <2>2, <3>1, <3>2
    <2> QED
        BY <2>1, <2>2
<1>11. i.op = "destroy_if_zero" => To(t) \in Accounts
    <2>1. CASE IsMaybeLazy(t)
        BY <2>1, AccountFacts DEF IsMaybeLazy
    <2>2. CASE ~IsMaybeLazy(t)
        BY <1>10, <2>2, DestroyAccess
    <2> QED
        BY <2>1, <2>2
<1> HIDE DEF i
<1> QED
    BY <1>4, <1>6, <1>7, <1>8, <1>10, <1>11 DEF i, p

\* An access that is skipped.
LEMMA RanSkips ==
    ASSUME NEW t \in Txs, NEW n \in Nat, n < Len(VmAccesses[t]),
           NEW values, NEW view, NEW gas, DOMAIN values \subseteq Locs,
           Journal(t, n, values, view), Ran(t, n, values, view, gas),
           Skipped(t, VmAccesses[t][n + 1], view)
    PROVE  Journal(t, n + 1, values, view) /\ Ran(t, n + 1, values, view, gas)
<1> DEFINE i == VmAccesses[t][n + 1]
           k == Reached(t, n)
<1>1. IsInstruction(i)
    BY DEF Skipped
<1>2. n # 0 /\ (~IsMaybeLazy(t) => n >= Prologue(t))
    BY <1>1, NextAccess
<1>3. n > 0 /\ n + 1 # 0
    BY <1>2, SMTT(30)
<1>4. Journal(t, n + 1, values, view)
    BY <1>2, <1>3 DEF Journal
<1>5. ASSUME NEW s, Agrees(t, s, values)
      PROVE  /\ After(t, s)[Reached(t, n + 1)].view = Completed(t, n + 1, s, view)
             /\ After(t, s)[Reached(t, n + 1)].gas = gas
             /\ Noted(t, n + 1, view)
    <2> DEFINE before == After(t, s)[k]
    <2>1. before.view = Completed(t, n, s, view) /\ before.gas = gas /\ Noted(t, n, view)
        BY <1>5 DEF Ran
    <2>2. /\ k + 1 \in 1 .. Len(Accesses(t)) /\ (k + 1) - 1 = k
          /\ Accesses(t)[k + 1] = i /\ Reached(t, n + 1) = k + 1
        BY <1>2, NextAccess
    <2>3. Skipped(t, i, before.view)
        <3>1. CASE IsMaybeLazy(t)
            <4>1. /\ To(t) \in Accounts /\ To(t) \in Locs /\ To(t) # NoAddress
                  /\ To(t) \notin DOMAIN view /\ To(t) \in LazyRecipient(t)
                BY <3>1, AccountFacts DEF IsMaybeLazy, Journal, LazyRecipient
            <4>2. before.view[To(t)] = Credit(s[To(t)], Transactions[t].value)
                BY <1>3, <2>1, <4>1 DEF Completed
            <4>3. s[To(t)] \in Account /\ ~s[To(t)].code
                BY <1>5, <3>1, <4>1 DEF Agrees, States
            <4>4. ~before.view[To(t)].code
                BY <4>2, <4>3, SMTT(30) DEF Credit, Account
            <4> QED
                BY <1>1, <4>1, <4>4 DEF Skipped, HasCode
        <3>2. CASE ~IsMaybeLazy(t)
            <4>1. DOMAIN Completed(t, n, s, view) = Locs /\ DOMAIN view \subseteq Locs
                BY DEF Completed, Journal
            <4>2. \A l \in DOMAIN view : Completed(t, n, s, view)[l] = view[l]
                BY <4>1 DEF Completed
            <4> QED
                BY <2>1, <3>2, <4>1, <4>2, SkippedSame
        <3> QED
            BY <3>1, <3>2
    <2>4. After(t, s)[k + 1] = before
        BY <2>2, <2>3, AfterStep
    <2>5. Completed(t, n + 1, s, view) = Completed(t, n, s, view)
        <3>1. n + 1 > 0
            BY SMTT(30)
        <3> QED
            BY <1>3, <3>1 DEF Completed
    <2>6. Noted(t, n + 1, view)
        <3> SUFFICES ASSUME HasCode(t, view), NEW j \in 1 .. (n + 1),
                            VmAccesses[t][j].op \in {"add", "read"}
                     PROVE  VmAccesses[t][j].loc \in DOMAIN view
            BY DEF Noted
        <3>1. j # n + 1
            BY DEF Skipped
        <3>2. j \in 1 .. n
            BY <3>1, SMTT(30)
        <3> QED
            BY <2>1, <3>2 DEF Noted
    <2> QED
        BY <2>1, <2>2, <2>4, <2>5, <2>6
<1> QED
    BY <1>4, <1>5 DEF Ran

\* An access adds no location to the journal: loading does.
LEMMA ApplyKeepsDomain ==
    ASSUME NEW t, NEW i, NEW view
    PROVE  DOMAIN Apply(t, i, view) = DOMAIN view
BY DEF Apply

\* What is asked of VmDb is added to the journal, and what is there stays; a value
\* that is asked for again is not.
LEMMA LoadedFacts ==
    ASSUME NEW i, NEW view, NEW values
    PROVE  /\ DOMAIN Loaded(i, view, values) \subseteq DOMAIN view \cup {i.loc}
           /\ DOMAIN view \subseteq DOMAIN Loaded(i, view, values)
           /\ \A l \in DOMAIN view : Loaded(i, view, values)[l] = view[l]
           /\ \A l \in DOMAIN Loaded(i, view, values) \ DOMAIN view :
                  l = i.loc /\ Loaded(i, view, values)[l] = values[l]
           /\ i.op # "reread" => i.loc \in DOMAIN Loaded(i, view, values)
BY DEF Loaded, Put

\* An access by the code keeps an account without code so.
LEMMA CodeStays ==
    ASSUME NEW t \in Txs, NEW i \in Instructions, NEW x \in Account, NEW r \in Account,
           ApplyAt(t, i, To(t), x, r).code, To(t) \in Accounts
    PROVE  x.code
<1>1. \A n \in Int : \A z \in Account : Credit(z, n).code = z.code
    BY SMTT(30) DEF Credit, Account
<1>2. To(t) \notin Slots /\ i \in Accessible
    BY AccountFacts DEF Accessible
<1>3. CASE i.op = "add" /\ i.loc \in Slots
    <2>1. ApplyAt(t, i, To(t), x, r) = x
        <3>1. i.loc \notin Accounts /\ To(t) # i.loc
            BY <1>2, <1>3, AccountFacts
        <3> QED
            BY <1>3, <3>1 DEF ApplyAt
    <2> QED
        BY <2>1
<1>4. CASE i.op = "add" /\ i.loc \in Accounts /\ i.loc \notin Slots
    <2> DEFINE y == [x EXCEPT !.balance = @ - i.amount]
    <2>1. y.code = x.code
        BY SMTT(30) DEF Account
    <2>2. [y EXCEPT !.balance = @ + i.amount].code = y.code
        BY SMTT(30) DEF Account
    <2>3. ApplyAt(t, i, To(t), x, r) = IF To(t) = i.loc THEN [y EXCEPT !.balance = @ + i.amount] ELSE y
        BY <1>4 DEF ApplyAt
    <2> HIDE DEF y
    <2> QED
        BY <2>1, <2>2, <2>3
<1>5. CASE i.op = "destroy_if_zero"
    <2>1. ApplyAt(t, i, To(t), x, r) = IF To(t) = i.loc THEN Credit(Destroyed, r.balance) ELSE Destroyed
        BY <1>5 DEF ApplyAt
    <2>2. Destroyed \in Account /\ ~Destroyed.code /\ r.balance \in Int
        BY SMTT(30) DEF Account, Destroyed
    <2> QED
        BY <1>1, <2>1, <2>2
<1>6. CASE i.op \in {"read", "reread"}
    <2>1. ApplyAt(t, i, To(t), x, r) = x
        BY <1>6 DEF ApplyAt
    <2> QED
        BY <2>1
<1>7. i.op \in {"add", "destroy_if_zero", "read", "reread"}
    BY CodeAccess
<1> QED
    BY <1>2, <1>3, <1>4, <1>5, <1>6, <1>7, AccessTyped

\* An access of a lazy transfer other than the first is skipped.
LEMMA LazySkips ==
    ASSUME NEW t \in Txs, NEW n \in Nat, n < Len(VmAccesses[t]),
           NEW values, NEW view, Journal(t, n, values, view),
           ~Skipped(t, VmAccesses[t][n + 1], view), IsMaybeLazy(t)
    PROVE  n = 0
<1>1. n # 0 => IsInstruction(VmAccesses[t][n + 1])
    BY NextAccess
<1>2. ~HasCode(t, view)
    BY DEF HasCode, Journal, IsMaybeLazy
<1> QED
    BY <1>1, <1>2 DEF Skipped

\* What an access leaves in the journal.
LEMMA JournalStep ==
    ASSUME NEW t \in Txs, NEW n \in Nat, n < Len(VmAccesses[t]),
           NEW i, i = VmAccesses[t][n + 1], NEW values, NEW view, Journal(t, n, values, view),
           NEW known, DOMAIN values \subseteq DOMAIN known,
           \A l \in DOMAIN values : known[l] = values[l],
           i.loc \in DOMAIN known,
           n = 0 => NonceFits(t, known[From(t)]) /\ FundsSuffice(t, known[From(t)]),
           ~Skipped(t, i, view),
           NEW loaded, loaded = Loaded(i, view, known)
    PROVE  Journal(t, n + 1, known, Apply(t, i, loaded))
<1>0. PICK after : after = Apply(t, i, loaded)
    OBVIOUS
<1>1. /\ DOMAIN after = DOMAIN loaded
      /\ DOMAIN loaded \subseteq DOMAIN view \cup {i.loc} /\ DOMAIN view \subseteq DOMAIN loaded
      /\ i.op # "reread" => i.loc \in DOMAIN loaded
    <2>1. DOMAIN after = DOMAIN loaded
        BY <1>0, ApplyKeepsDomain, SMTT(30)
    <2> QED
        BY <2>1, LoadedFacts, SMTT(30)
<1>2. n = 0 => i.op = "debit" /\ i.loc = From(t)
    <2>1. n = 0 => i = [op |-> "debit", loc |-> From(t)]
        BY <1>0, NextAccess
    <2> QED
        BY <2>1, SMTT(30)
<1>3. n + 1 # 0 /\ n + 1 > 0 /\ (n = 0 \/ n > 0)
    BY SMTT(30)
<1>4. From(t) \in DOMAIN loaded
    BY <1>1, <1>2, <1>3 DEF Journal
<1>5. NonceFits(t, known[From(t)]) /\ FundsSuffice(t, known[From(t)])
    <2>1. CASE n = 0
        BY <2>1
    <2>2. CASE n > 0
        <3>1. From(t) \in DOMAIN values /\ NonceFits(t, values[From(t)]) /\ FundsSuffice(t, values[From(t)])
            BY <2>2 DEF Journal
        <3>2. known[From(t)] = values[From(t)]
            BY <3>1
        <3> QED
            BY <3>1, <3>2
    <2> QED
        BY <1>3, <2>1, <2>2
<1>6. IsMaybeLazy(t) => DOMAIN loaded \subseteq {From(t)}
    <2> SUFFICES ASSUME IsMaybeLazy(t) PROVE DOMAIN loaded \subseteq {From(t)}
        OBVIOUS
    <2>1. n = 0
        BY LazySkips
    <2> QED
        BY <1>1, <1>2, <2>1 DEF Journal
<1>7. ~IsMaybeLazy(t) /\ n + 1 >= Prologue(t) => To(t) \in DOMAIN loaded \cup {NoAddress}
    <2> SUFFICES ASSUME ~IsMaybeLazy(t), n + 1 >= Prologue(t), To(t) # NoAddress
                 PROVE  To(t) \in DOMAIN loaded
        OBVIOUS
    <2>1. CASE To(t) = From(t)
        BY <1>4, <2>1
    <2>2. CASE To(t) # From(t)
        <3>1. Prologue(t) = 2
            BY <2>2 DEF Prologue
        <3>2. n = 1 \/ n >= 2
            BY <3>1, SMTT(30)
        <3>3. CASE n = 1
            <4>1. n + 1 = 2
                BY <3>3, SMTT(30)
            <4>2. VmAccesses[t][2] = [op |-> "credit", loc |-> To(t)]
                BY <3>1, AccessAt
            <4>3. i.op = "credit" /\ i.loc = To(t)
                BY <1>0, <4>1, <4>2, SMTT(30)
            <4> QED
                BY <1>1, <4>3
        <3>4. CASE n >= 2
            BY <1>1, <3>1, <3>4 DEF Journal
        <3> QED
            BY <3>2, <3>3, <3>4
    <2> QED
        BY <2>1, <2>2
<1>8. DOMAIN loaded \subseteq DOMAIN known
    BY <1>1 DEF Journal
<1>9. Journal(t, n + 1, known, after)
    BY <1>1, <1>3, <1>4, <1>5, <1>6, <1>7, <1>8 DEF Journal
<1> QED
    BY <1>0, <1>9

\* An access that is not skipped.
LEMMA RanAccess ==
    ASSUME NEW t \in Txs, NEW n \in Nat, n < Len(VmAccesses[t]),
           NEW i, i = VmAccesses[t][n + 1], NEW values, NEW view, NEW gas, Journal(t, n, values, view),
           Ran(t, n, values, view, gas),
           NEW known, DOMAIN values \subseteq DOMAIN known, DOMAIN known \subseteq Locs,
           \A l \in DOMAIN values : known[l] = values[l],
           i.loc \in DOMAIN known,
           ~Skipped(t, i, view),
           NEW loaded, loaded = Loaded(i, view, known)
    PROVE  Ran(t, n + 1, known, Apply(t, i, loaded), gas + GasOf(i))
<1>0. PICK after, k : after = Apply(t, i, loaded) /\ k = Reached(t, n)
    OBVIOUS
<1>1. DOMAIN after = DOMAIN loaded
    BY <1>0, ApplyKeepsDomain, SMTT(30)
<1>2. /\ DOMAIN loaded \subseteq DOMAIN view \cup {i.loc} /\ DOMAIN view \subseteq DOMAIN loaded
      /\ \A l \in DOMAIN view : loaded[l] = view[l]
      /\ \A l \in DOMAIN loaded \ DOMAIN view : l = i.loc /\ loaded[l] = known[l]
      /\ i.op # "reread" => i.loc \in DOMAIN loaded
    BY LoadedFacts, SMTT(30)
<1>3. i \in Accessible
    BY <1>0, NextAccess
<1>4. IsMaybeLazy(t) => n = 0
    BY <1>0, LazySkips
<1>5. DOMAIN view \subseteq Locs /\ DOMAIN loaded \subseteq Locs
    BY <1>0, <1>2 DEF Journal
<1>6. i.op \in {"add", "destroy_if_zero"} =>
          /\ ~IsMaybeLazy(t) /\ n # 0 /\ n >= Prologue(t)
          /\ To(t) \in DOMAIN view \/ To(t) = NoAddress
    <2>1. i.op \in {"add", "destroy_if_zero"} => IsInstruction(i)
        BY DEF IsInstruction
    <2>2. i.op \in {"add", "destroy_if_zero"} => n # 0 /\ (~IsMaybeLazy(t) => n >= Prologue(t))
        BY <1>0, <2>1, NextAccess
    <2> QED
        BY <1>4, <2>2 DEF Journal
<1>7. i.op = "destroy_if_zero" => To(t) \in DOMAIN loaded
    <2>1. i.op = "destroy_if_zero" => To(t) \in Accounts
        BY <1>0, NextAccess
    <2> QED
        BY <1>2, <1>6, <2>1, AccountFacts
<1>8. i.op = "add" => To(t) \in DOMAIN loaded \/ To(t) \notin Locs
    BY <1>2, <1>6, AccountFacts
<1>9. ASSUME NEW s, Agrees(t, s, known)
      PROVE  /\ After(t, s)[Reached(t, n + 1)].view = Completed(t, n + 1, s, after)
             /\ After(t, s)[Reached(t, n + 1)].gas = gas + GasOf(i)
             /\ Noted(t, n + 1, after)
    <2>0. PICK sv : sv = After(t, s)[k].view
        OBVIOUS
    <2>1. Agrees(t, s, values)
        BY <1>9 DEF Agrees
    <2>2. sv = Completed(t, n, s, view) /\ After(t, s)[k].gas = gas /\ Noted(t, n, view)
        BY <1>0, <2>0, <2>1 DEF Ran
    <2>3. sv \in States /\ gas \in Nat /\ s \in States
        <3>1. k \in 0 .. Len(Accesses(t))
            <4>1. Len(Accesses(t)) \in Nat /\ Len(VmAccesses[t]) \in Nat
                BY AccessAt
            <4>2. IsMaybeLazy(t) => k = 0
                <5>1. ~(0 > 0)
                    BY SMTT(30)
                <5> QED
                    BY <1>0, <1>4, <5>1 DEF Reached
            <4>3. ~IsMaybeLazy(t) => k = n /\ Len(Accesses(t)) = Len(VmAccesses[t])
                BY <1>0, AccessAt DEF Reached
            <4> QED
                BY <4>1, <4>2, <4>3, SMTT(30)
        <3>2. s \in States
            BY <1>9 DEF Agrees
        <3> QED
            BY <2>0, <2>2, <3>1, <3>2, AfterTyped
    <2>4. DOMAIN sv = Locs /\ sv \in [Locs -> Account \cup Int]
        BY <2>3 DEF States
    <2>5. \A l \in Locs : l \notin DOMAIN view => sv[l] = s[l]
        <3>1. ~(n > 0 /\ \E l : l \in LazyRecipient(t))
            <4>1. ~(0 > 0)
                BY SMTT(30)
            <4> QED
                BY <1>4, <4>1 DEF LazyRecipient
        <3> QED
            BY <2>2, <3>1 DEF Completed
    <2>6. \A l \in DOMAIN view : sv[l] = view[l]
        BY <1>5, <2>2 DEF Completed
    <2>7. \A l \in DOMAIN loaded : sv[l] = loaded[l]
        <3> SUFFICES ASSUME NEW l \in DOMAIN loaded PROVE sv[l] = loaded[l]
            OBVIOUS
        <3>1. CASE l \in DOMAIN view
            BY <1>2, <2>6, <3>1
        <3>2. CASE l \notin DOMAIN view
            <4>1. l = i.loc /\ loaded[l] = known[l] /\ l \in Locs
                BY <1>2, <1>5, <3>2
            <4>2. s[l] = known[l]
                BY <1>9, <4>1 DEF Agrees
            <4> QED
                BY <2>5, <3>2, <4>1, <4>2
        <3> QED
            BY <3>1, <3>2
    <2>8. /\ \A l \in DOMAIN loaded : Apply(t, i, sv)[l] = after[l]
          /\ \A l \in Locs : l \notin DOMAIN loaded => Apply(t, i, sv)[l] = sv[l]
        <3>1. i.op \notin {"read", "reread"} => i.loc \in DOMAIN loaded
            BY <1>2
        <3>2. DOMAIN loaded \subseteq DOMAIN sv
            BY <1>5, <2>4
        <3>4. Covers(t, i, loaded, sv)
            <4>1. i.op = "add" => To(t) \in DOMAIN loaded \/ To(t) \notin DOMAIN sv
                BY <1>8, <2>4
            <4> QED
                BY <1>7, <2>7, <3>1, <3>2, <4>1 DEF Covers
        <3>3. /\ \A l \in DOMAIN loaded : Apply(t, i, sv)[l] = Apply(t, i, loaded)[l]
              /\ \A l \in DOMAIN sv \ DOMAIN loaded : Apply(t, i, sv)[l] = sv[l]
            <4>1. Alike(t, i, loaded, sv)
                BY <1>3, <3>4, ApplyCompleted
            <4> QED
                BY <4>1 DEF Alike
        <3>5. \A l \in DOMAIN loaded : Apply(t, i, sv)[l] = after[l]
            BY <1>0, <3>3
        <3>6. \A l \in Locs : l \notin DOMAIN loaded => Apply(t, i, sv)[l] = sv[l]
            BY <2>4, <3>3
        <3> QED
            BY <3>5, <3>6
    <2>9. Apply(t, i, sv) = [l \in Locs |-> Apply(t, i, sv)[l]]
        BY <1>3, <2>4, ApplyFunction
    <2>10. Noted(t, n + 1, after)
        <3> SUFFICES ASSUME HasCode(t, after), NEW j \in 1 .. (n + 1),
                            VmAccesses[t][j].op \in {"add", "read"}
                     PROVE  VmAccesses[t][j].loc \in DOMAIN after
            BY DEF Noted
        <3>1. CASE j = n + 1
            BY <1>1, <1>2, <3>1
        <3>2. CASE j # n + 1
            <4>1. /\ j \in 1 .. n /\ j - 1 \in Nat /\ j - 1 < Len(VmAccesses[t])
                  /\ (j - 1) + 1 = j /\ n # 0 /\ Len(VmAccesses[t]) \in Nat
                <5>1. Len(VmAccesses[t]) \in Nat
                    BY AccessAt
                <5> QED
                    BY <3>2, <5>1, SMTT(30)
            <4>2. IsInstruction(VmAccesses[t][(j - 1) + 1])
                BY <4>1 DEF IsInstruction
            <4>3. ~IsMaybeLazy(t) /\ j - 1 >= Prologue(t)
                BY <1>4, <4>1, <4>2, NextAccess
            <4>4. Prologue(t) \in Nat
                BY SMTT(30) DEF Prologue
            <4>5. n >= Prologue(t) /\ n + 1 \in (Prologue(t) + 1) .. Len(VmAccesses[t])
                BY <4>1, <4>3, <4>4, SMTT(30)
            <4>6. i \in Instructions
                BY <4>3, <4>5, AccessAt
            <4>7. HasCode(t, view)
                <5>1. CASE To(t) = NoAddress
                    BY <5>1 DEF HasCode
                <5>2. CASE To(t) # NoAddress
                    <6>1. To(t) \in DOMAIN view /\ To(t) \in Accounts
                        BY <4>3, <4>5, <5>2, AccountFacts DEF Journal
                    <6>2. To(t) \in DOMAIN loaded /\ loaded[To(t)] = view[To(t)]
                        BY <1>2, <6>1
                    <6>3. after[To(t)] = ApplyAt(t, i, To(t), view[To(t)], view[To(t)])
                        <7>1. Apply(t, i, loaded)[To(t)] =
                                  ApplyAt(t, i, To(t), loaded[To(t)], loaded[To(t)])
                            BY <1>3, <6>2, ApplyPointwise
                        <7> QED
                            BY <1>0, <6>2, <7>1
                    <6>4. view[To(t)] \in Account
                        BY <2>3, <2>6, <6>1 DEF States
                    <6>5. after[To(t)].code
                        BY <5>2 DEF HasCode
                    <6>6. view[To(t)].code
                        <7>1. ApplyAt(t, i, To(t), view[To(t)], view[To(t)]).code
                            BY <6>3, <6>5
                        <7> QED
                            BY <4>6, <6>1, <6>4, <7>1, CodeStays
                    <6> QED
                        BY <6>1, <6>6 DEF HasCode
                <5> QED
                    BY <5>1, <5>2
            <4> QED
                BY <1>1, <1>2, <2>2, <4>1, <4>7 DEF Noted
        <3> QED
            BY <3>1, <3>2
    <2>11. CASE ~IsMaybeLazy(t)
        <3>1. /\ k + 1 \in 1 .. Len(Accesses(t)) /\ (k + 1) - 1 = k
              /\ Accesses(t)[k + 1] = i /\ Reached(t, n + 1) = k + 1
            BY <1>0, <2>11, NextAccess
        <3>2. ~Skipped(t, i, sv)
            BY <1>5, <2>2, <2>4, <2>6, <2>11, SkippedSame
        <3>3. /\ After(t, s)[k + 1].view = Apply(t, i, sv)
              /\ After(t, s)[k + 1].gas = After(t, s)[k].gas + GasOf(i)
            BY <2>0, <3>1, <3>2, AfterStep
        <3>4. LazyRecipient(t) = {}
            BY <2>11 DEF LazyRecipient
        <3>5. Completed(t, n + 1, s, after) = [l \in Locs |-> IF l \in DOMAIN after THEN after[l] ELSE s[l]]
            BY <3>4 DEF Completed
        <3>6. \A l \in Locs : Apply(t, i, sv)[l] = IF l \in DOMAIN after THEN after[l] ELSE s[l]
            <4>1. \A l \in Locs : l \notin DOMAIN loaded => sv[l] = s[l]
                BY <1>2, <2>5
            <4> QED
                BY <1>1, <2>8, <4>1
        <3>7. Completed(t, n + 1, s, after) = Apply(t, i, sv)
            BY <2>9, <3>5, <3>6
        <3> QED
            BY <2>2, <2>10, <3>1, <3>3, <3>7
    <2>12. CASE IsMaybeLazy(t)
        <3> DEFINE credit == [op |-> "credit", loc |-> To(t)]
                   paid == Apply(t, i, sv)
        <3>1. n = 0 /\ i = [op |-> "debit", loc |-> From(t)]
            BY <1>4, <2>12, NextAccess
        <3>2. k = 0 /\ Reached(t, n + 1) = 2
            <4>1. ~(0 > 0) /\ 0 + 1 > 0 /\ (0 + 1) + 1 = 2
                BY SMTT(30)
            <4> QED
                BY <1>0, <2>12, <3>1, <4>1 DEF Reached
        <3>3. /\ 1 \in 1 .. Len(Accesses(t)) /\ 2 \in 1 .. Len(Accesses(t))
              /\ 1 - 1 = 0 /\ 2 - 1 = 1
              /\ Accesses(t)[1] = i /\ Accesses(t)[2] = credit
            <4>1. /\ Len(Accesses(t)) = Len(VmAccesses[t]) + 1 /\ Len(VmAccesses[t]) \in Nat \ {0}
                  /\ Accesses(t)[1] = i /\ Accesses(t)[2] = credit
                BY <2>12, <3>1, AccessAt
            <4> QED
                BY <4>1, SMTT(30)
        <3>4. /\ i.op = "debit" /\ ~IsInstruction(i) /\ GasOf(i) = 0
              /\ credit.op = "credit" /\ ~IsInstruction(credit) /\ GasOf(credit) = 0
              /\ credit.loc = To(t)
            BY <3>1, SMTT(30) DEF IsInstruction, GasOf
        <3>5. /\ After(t, s)[1].view = paid
              /\ After(t, s)[1].gas = After(t, s)[0].gas + 0
            <4>1. ~Skipped(t, i, sv)
                BY <3>4 DEF Skipped
            <4> QED
                BY <2>0, <3>2, <3>3, <3>4, <4>1, AfterStep
        <3>6. /\ After(t, s)[2].view = Apply(t, credit, paid)
              /\ After(t, s)[2].gas = After(t, s)[1].gas + 0
            <4>1. ~Skipped(t, credit, paid)
                BY <3>4 DEF Skipped
            <4>2. /\ ~Skipped(t, Accesses(t)[2], After(t, s)[2 - 1].view)
                  /\ After(t, s)[2 - 1] = After(t, s)[1]
                BY <3>3, <3>5, <4>1
            <4>3. /\ After(t, s)[2].view = Apply(t, Accesses(t)[2], After(t, s)[2 - 1].view)
                  /\ After(t, s)[2].gas = After(t, s)[2 - 1].gas + GasOf(Accesses(t)[2])
                BY <3>3, <4>2, AfterStep
            <4> HIDE DEF paid, credit
            <4> QED
                BY <3>3, <3>4, <3>5, <4>2, <4>3
        <3>7. After(t, s)[2].gas = gas + GasOf(i)
            BY <2>2, <2>3, <3>2, <3>4, <3>5, <3>6, SMTT(30)
        <3>8. paid \in States /\ DOMAIN paid = Locs /\ paid \in [Locs -> Account \cup Int]
            <4>1. paid \in States
                BY <1>3, <2>3, <3>4, ApplyTyped
            <4> QED
                BY <4>1 DEF States
        <3>9. credit \in Accessible
            <4>1. To(t) \in Accounts
                BY <2>12, AccountFacts DEF IsMaybeLazy
            <4> QED
                BY <4>1 DEF Accessible
        <3> HIDE DEF credit, paid
        <3>10. ASSUME NEW l \in Locs
               PROVE  Apply(t, credit, paid)[l] =
                          IF l \in DOMAIN after THEN after[l]
                          ELSE IF l \in LazyRecipient(t) THEN Credit(s[l], Transactions[t].value)
                          ELSE s[l]
            <4>1. Apply(t, credit, paid)[l] = ApplyAt(t, credit, l, paid[l], paid[To(t)])
                BY <3>8, <3>9, ApplyPointwise
            <4>2. ApplyAt(t, credit, l, paid[l], paid[To(t)]) =
                      IF l = To(t) THEN Credit(paid[l], Transactions[t].value) ELSE paid[l]
                BY <3>4 DEF ApplyAt
            <4>3. l \in LazyRecipient(t) <=> l = To(t)
                BY <2>12 DEF LazyRecipient
            <4>4. l \in DOMAIN after => l # To(t)
                <5>1. DOMAIN view = {} /\ i.loc = From(t)
                    <6>1. i.loc = From(t)
                        BY <3>1, SMTT(30)
                    <6> QED
                        BY <3>1, <6>1 DEF Journal
                <5>2. From(t) # To(t)
                    BY <2>12 DEF IsMaybeLazy
                <5> QED
                    BY <1>1, <1>2, <5>1, <5>2
            <4>5. l \in DOMAIN after => paid[l] = after[l]
                BY <1>1, <2>8 DEF paid
            <4>6. l \notin DOMAIN after => paid[l] = s[l]
                BY <1>1, <1>2, <2>5, <2>8 DEF paid
            <4> QED
                BY <4>1, <4>2, <4>3, <4>4, <4>5, <4>6
        <3>11. Apply(t, credit, paid) = [l \in Locs |-> Apply(t, credit, paid)[l]]
            BY <3>8, <3>9, ApplyFunction
        <3>12. Completed(t, n + 1, s, after) = Apply(t, credit, paid)
            <4>1. n + 1 > 0
                BY SMTT(30)
            <4>2. Completed(t, n + 1, s, after) =
                    [l \in Locs |-> IF l \in DOMAIN after THEN after[l]
                          ELSE IF l \in LazyRecipient(t) THEN Credit(s[l], Transactions[t].value)
                          ELSE s[l]]
                BY <4>1 DEF Completed
            <4> QED
                BY <3>10, <3>11, <4>2
        <3> QED
            BY <2>10, <3>2, <3>6, <3>7, <3>12
    <2> QED
        BY <2>11, <2>12
<1> QED
    BY <1>0, <1>9 DEF Ran

-----------------------------------------------------------------------------
(***************************************************************************)
(* It starts and it ends as the sequential execution does.                 *)
(***************************************************************************)

\* An execution starts with nothing read and nothing changed.
LEMMA RanStart ==
    ASSUME NEW t \in Txs
    PROVE  Ran(t, 0, <<>>, <<>>, 1) /\ Journal(t, 0, <<>>, <<>>)
<1>1. DOMAIN <<>> = {} /\ 1 .. 0 = {} /\ ~(0 > 0) /\ ~(0 >= 1) /\ ~(0 >= 2)
    BY SMTT(30)
<1>2. Prologue(t) \in {1, 2}
    BY DEF Prologue
<1> DEFINE none == <<>>
<1> HIDE DEF none
<1>3. Journal(t, 0, none, none)
    BY <1>1, <1>2 DEF Journal, none
<1>4. ASSUME NEW s, Agrees(t, s, none)
      PROVE  /\ After(t, s)[Reached(t, 0)].view = Completed(t, 0, s, none)
             /\ After(t, s)[Reached(t, 0)].gas = 1
             /\ Noted(t, 0, none)
    <2>1. Reached(t, 0) = 0
        BY <1>1 DEF Reached
    <2>2. After(t, s)[0].view = s /\ After(t, s)[0].gas = 1
        <3>1. After(t, s)[0] = [view |-> s, gas |-> 1]
            BY AfterEquation
        <3> QED
            BY <3>1, Outcomes
    <2>3. s = [l \in Locs |-> s[l]]
        <3>1. s \in [Locs -> Account \cup Int]
            BY <1>4 DEF Agrees, States
        <3> QED
            BY <3>1
    <2>4. Completed(t, 0, s, none) = [l \in Locs |-> s[l]]
        BY <1>1 DEF Completed, none
    <2>5. Noted(t, 0, none)
        BY <1>1 DEF Noted
    <2> QED
        BY <2>1, <2>2, <2>3, <2>4, <2>5
<1>5. Ran(t, 0, none, none, 1)
    BY <1>4 DEF Ran
<1> QED
    BY <1>3, <1>5 DEF none

\* An execution ends with the sender paid back.
LEMMA RanFinish ==
    ASSUME NEW t \in Txs, NEW values, NEW view, NEW gas, DOMAIN values \subseteq Locs,
           Journal(t, Len(VmAccesses[t]), values, view),
           Ran(t, Len(VmAccesses[t]), values, view, gas)
    PROVE  RanAll(t, values, Refund(t, gas, view), gas)
<1>0. PICK n, left : n = Len(VmAccesses[t]) /\ left = Refund(t, gas, view)
    OBVIOUS
<1>1. n \in Nat /\ n > 0 /\ Reached(t, n) = Len(Accesses(t))
    <2>1. n \in Nat /\ n > 0
        <3>1. n \in Nat \ {0}
            BY <1>0, AccessAt
        <3> QED
            BY <3>1, SMTT(30)
    <2>2. CASE IsMaybeLazy(t)
        BY <1>0, <2>1, <2>2, AccessAt DEF Reached
    <2>3. CASE ~IsMaybeLazy(t)
        BY <1>0, <2>1, <2>3, AccessAt DEF Reached
    <2> QED
        BY <2>1, <2>2, <2>3
<1>2. From(t) \in DOMAIN view /\ DOMAIN view \subseteq Locs
    BY <1>0, <1>1 DEF Journal
<1>3. /\ DOMAIN left = DOMAIN view
      /\ left[From(t)] = Credit(view[From(t)], (GasLimit(t) - gas) * EffectiveGasPrice(t))
      /\ \A l \in DOMAIN view : l # From(t) => left[l] = view[l]
    BY <1>0, <1>2 DEF Refund
<1>4. Journal(t, n, values, left)
    BY <1>0, <1>3 DEF Journal
<1>5. ASSUME NEW s, Agrees(t, s, values)
      PROVE  /\ RunFrom(t, s).gas = gas
             /\ Refund(t, gas, RunFrom(t, s).view) = Completed(t, n, s, left)
    <2>1. RunFrom(t, s).gas = gas /\ RunFrom(t, s).view = Completed(t, n, s, view)
        BY <1>0, <1>1, <1>5 DEF Ran, RunFrom
    <2>2. Refund(t, gas, Completed(t, n, s, view)) = Completed(t, n, s, left)
        <3>1. PICK c : c = Completed(t, n, s, view)
            OBVIOUS
        <3>2. PICK d : d = Completed(t, n, s, left)
            OBVIOUS
        <3>3. /\ DOMAIN c = Locs /\ DOMAIN d = Locs
              /\ c = [l \in Locs |-> c[l]] /\ d = [l \in Locs |-> d[l]]
            BY <3>1, <3>2 DEF Completed
        <3>4. \A l \in Locs : /\ l # From(t) => c[l] = d[l]
                              /\ l \in DOMAIN view => c[l] = view[l] /\ d[l] = left[l]
            BY <1>2, <1>3, <3>1, <3>2 DEF Completed
        <3>5. Refund(t, gas, c) = [l \in Locs |-> d[l]]
            BY <1>2, <1>3, <3>3, <3>4 DEF Refund
        <3> QED
            BY <3>1, <3>2, <3>3, <3>5
    <2> QED
        BY <2>1, <2>2
<1> QED
    BY <1>0, <1>4, <1>5 DEF RanAll

-----------------------------------------------------------------------------
(***************************************************************************)
(* What a transaction leaves in the memory is what it does to the state.   *)
(***************************************************************************)

\* Additions to a balance add up, and leave the code as it is.
LEMMA CreditFacts ==
    /\ \A x \in Account : Credit(x, 0) = x
    /\ \A x \in Account : \A a, b \in Int : Credit(Credit(x, a), b) = Credit(x, a + b)
    /\ \A x \in Account : \A a \in Int : Credit(x, a).code = x.code
<1>1. ASSUME NEW x \in Account, NEW a \in Int, NEW b \in Int
      PROVE  Credit(x, 0) = x /\ Credit(Credit(x, a), b) = Credit(x, a + b)
             /\ Credit(x, a).code = x.code
    <2> DEFINE m == x.balance  k == x.nonce  d == x.code
    <2>1. /\ m \in Int /\ x = [balance |-> m, nonce |-> k, code |-> d]
          /\ DOMAIN x = {"balance", "nonce", "code"}
        BY DEF Account
    <2>2. \A y \in Int : Credit(x, y) = [balance |-> m + y, nonce |-> k, code |-> d]
        BY <2>1, SMTT(30) DEF Credit
    <2> HIDE DEF m, k, d
    <2>3. m + 0 = m /\ (m + a) + b = m + (a + b) /\ a + b \in Int /\ 0 \in Int
        BY <2>1, SMTT(30)
    <2>4. \A z : Credit([balance |-> z, nonce |-> k, code |-> d], b) =
                     [balance |-> z + b, nonce |-> k, code |-> d]
        BY SMTT(30) DEF Credit
    <2>5. [balance |-> m + a, nonce |-> k, code |-> d].code = d
        OBVIOUS
    <2>6. Credit(x, 0) = x
        BY <2>1, <2>2, <2>3
    <2>7. Credit(Credit(x, a), b) = Credit(x, a + b)
        BY <2>2, <2>3, <2>4
    <2>8. Credit(x, a).code = x.code
        BY <2>2, <2>5 DEF d
    <2> QED
        BY <2>6, <2>7, <2>8
<1>2. 0 \in Int
    BY SMTT(30)
<1> QED
    BY <1>1, <1>2

\* What apply_rewards pays is what the sequential execution pays, as long as the
\* price covers the base fee.
LEMMA RewardIsTip ==
    ASSUME Regular, NEW t \in Txs
    PROVE  RewardPrice(t) = Tip(t)
<1>1. /\ BaseFee \in Nat /\ EffectiveGasPrice(t) \in Nat
    BY AmountsAssumption, PriceTyped
<1>2. IsEnabledIn("LONDON") => EffectiveGasPrice(t) >= BaseFee
    BY DEF Regular
<1>3. RewardPrice(t) = IF ~IsEnabledIn("LONDON") THEN EffectiveGasPrice(t)
                       ELSE IF EffectiveGasPrice(t) > BaseFee
                       THEN EffectiveGasPrice(t) - BaseFee ELSE 0
    BY DEF RewardPrice, EffectiveGasPrice
<1>4. Tip(t) = EffectiveGasPrice(t) - (IF IsEnabledIn("LONDON") THEN BaseFee ELSE 0)
    BY DEF Tip
<1> HIDE DEF RewardPrice, Tip
<1> QED
    BY <1>1, <1>2, <1>3, <1>4, SMTT(30)

\* An entry, or the lack of one, has the effect of the sequential execution of t.
EntryEffect(t, l, entry) ==
    /\ entry = Absent => SequentialState(t + 1)[l] = SequentialState(t)[l]
    /\ entry.kind = "lazy" =>
           /\ l \in Accounts /\ entry.value \in Int
           /\ SequentialState(t + 1)[l] = Credit(SequentialState(t)[l], entry.value)
    /\ entry.kind \in {"basic", "storage"} => SequentialState(t + 1)[l] = entry.value

\* What t makes of the state, once it has run.
LEMMA ExecutedState ==
    ASSUME NEW t \in Txs, NEW values, NEW view, NEW gas, RanAll(t, values, view, gas),
           Agrees(t, SequentialState(t), values), DOMAIN values \subseteq Locs
    PROVE  LET n == Len(VmAccesses[t])
               c == Completed(t, n, SequentialState(t), view)
           IN  /\ n \in Nat /\ n > 0
               /\ RunFrom(t, SequentialState(t)).gas = gas
               /\ c = Refund(t, gas, RunFrom(t, SequentialState(t)).view)
               /\ CumulativeGas(t + 1) = CumulativeGas(t) + gas
               /\ SequentialState(t + 1)[Beneficiary] = Credit(c[Beneficiary], Tip(t) * gas)
               /\ \A l \in Locs : l # Beneficiary => SequentialState(t + 1)[l] = c[l]
<1> DEFINE n == Len(VmAccesses[t])
           s == SequentialState(t)
           c == Completed(t, n, s, view)
<1>1. n \in Nat /\ n > 0
    <2>1. n \in Nat \ {0}
        BY AccessAt
    <2> HIDE DEF n
    <2> QED
        BY <2>1, SMTT(30)
<1>2. RunFrom(t, s).gas = gas /\ Refund(t, gas, RunFrom(t, s).view) = c
    BY DEF RanAll
<1>3. Sequential[t + 1] = Executed(t, Sequential[t])
    BY SequentialEquation
<1>4. Executed(t, Sequential[t]) =
          [state |-> [c EXCEPT ![Beneficiary] = Credit(@, Tip(t) * gas)],
           gas   |-> CumulativeGas(t) + gas]
    BY <1>2 DEF Executed, SequentialState, CumulativeGas
<1>5. DOMAIN c = Locs /\ Beneficiary \in Locs
    BY AccountFacts DEF Completed
<1> HIDE DEF c, n
<1>6. /\ SequentialState(t + 1) = [c EXCEPT ![Beneficiary] = Credit(@, Tip(t) * gas)]
      /\ CumulativeGas(t + 1) = CumulativeGas(t) + gas
    <2>1. Sequential[t + 1] =
              [state |-> [c EXCEPT ![Beneficiary] = Credit(@, Tip(t) * gas)],
               gas   |-> CumulativeGas(t) + gas]
        BY <1>3, <1>4
    <2> QED
        <3>1. PICK q, x, y : /\ q = Sequential[t + 1] /\ q = [state |-> x, gas |-> y]
                             /\ x = [c EXCEPT ![Beneficiary] = Credit(@, Tip(t) * gas)]
                             /\ y = CumulativeGas(t) + gas
            BY <2>1
        <3>2. q.state = x /\ q.gas = y
            <4>1. q = [state |-> x, gas |-> y]
                BY <3>1
            <4> QED
                BY <4>1, SMTT(30)
        <3> QED
            BY <3>1, <3>2 DEF SequentialState, CumulativeGas
<1>7. /\ SequentialState(t + 1)[Beneficiary] = Credit(c[Beneficiary], Tip(t) * gas)
      /\ \A l \in Locs : l # Beneficiary => SequentialState(t + 1)[l] = c[l]
    BY <1>5, <1>6
<1> QED
    BY <1>1, <1>2, <1>6, <1>7 DEF c, n

\* The write ws[l], where changed is what t wrote itself.
WriteAt(t, gas, view, ws, changed, l) ==
    /\ l \in DOMAIN ws <=> l \in changed \cup LazyRecipient(t) \cup {Beneficiary}
    /\ l \in changed =>
           /\ l \in Slots => ws[l].kind = "storage" /\ ws[l].value = view[l]
           /\ l \notin Slots => /\ ws[l].kind = "basic"
                                /\ ws[l].value = Credit(view[l], Reward(t, gas, l))
    /\ l \in (LazyRecipient(t) \cup {Beneficiary}) \ changed =>
           /\ ws[l].kind = "lazy"
           /\ ws[l].value = Reward(t, gas, l) +
                  (IF l \in LazyRecipient(t) THEN Transactions[t].value ELSE 0)

\* The writes of a write set.
LEMMA WriteSetAt ==
    ASSUME NEW t, NEW gas, NEW values, NEW view, NEW l
    PROVE  WriteAt(t, gas, view, WriteSet(t, gas, values, view),
                   ChangedLocations(values, view), l)
<1> DEFINE ws == WriteSet(t, gas, values, view)
           changed == ChangedLocations(values, view)
<1>2. DOMAIN ws = changed \cup LazyRecipient(t) \cup {Beneficiary}
    BY DEF WriteSet
<1>3. l \in changed =>
          ws[l] = [kind |-> KindOf(l),
                   value |-> IF l \in Slots THEN view[l]
                             ELSE Credit(view[l], Reward(t, gas, l))]
    BY DEF WriteSet
<1>4. l \in (LazyRecipient(t) \cup {Beneficiary}) \ changed =>
          ws[l] = [kind |-> "lazy",
                   value |-> Reward(t, gas, l) + (IF l \in LazyRecipient(t)
                                             THEN Transactions[t].value ELSE 0)]
    BY DEF WriteSet
<1> HIDE DEF ws, changed
<1>5. l \in changed =>
          /\ ws[l].kind = KindOf(l)
          /\ ws[l].value = IF l \in Slots THEN view[l] ELSE Credit(view[l], Reward(t, gas, l))
    <2> SUFFICES ASSUME l \in changed
                 PROVE  /\ ws[l].kind = KindOf(l)
                        /\ ws[l].value = IF l \in Slots THEN view[l]
                                         ELSE Credit(view[l], Reward(t, gas, l))
        OBVIOUS
    <2>1. PICK e, k, v : /\ e = ws[l] /\ e = [kind |-> k, value |-> v] /\ k = KindOf(l)
                         /\ v = IF l \in Slots THEN view[l]
                                ELSE Credit(view[l], Reward(t, gas, l))
        BY <1>3
    <2>2. e = [kind |-> k, value |-> v]
        BY <2>1
    <2>3. e.kind = k /\ e.value = v
        BY <2>2, SMTT(30)
    <2> QED
        BY <2>1, <2>3
<1>6. l \in (LazyRecipient(t) \cup {Beneficiary}) \ changed =>
          /\ ws[l].kind = "lazy"
          /\ ws[l].value = Reward(t, gas, l) +
                 (IF l \in LazyRecipient(t) THEN Transactions[t].value ELSE 0)
    <2> SUFFICES ASSUME l \in (LazyRecipient(t) \cup {Beneficiary}) \ changed
                 PROVE  /\ ws[l].kind = "lazy"
                        /\ ws[l].value = Reward(t, gas, l) +
                               (IF l \in LazyRecipient(t) THEN Transactions[t].value ELSE 0)
        OBVIOUS
    <2>1. PICK e, v : /\ e = ws[l] /\ e = [kind |-> "lazy", value |-> v]
                      /\ v = Reward(t, gas, l) + (IF l \in LazyRecipient(t)
                                                   THEN Transactions[t].value ELSE 0)
        BY <1>4
    <2>2. e = [kind |-> "lazy", value |-> v]
        BY <2>1
    <2>3. e.kind = "lazy" /\ e.value = v
        BY <2>2, SMTT(30)
    <2> QED
        BY <2>1, <2>3
<1>7. l \in changed => (l \in Slots => ws[l].kind = "storage") /\ (l \notin Slots => ws[l].kind = "basic")
    BY <1>5 DEF KindOf
<1>8. WriteAt(t, gas, view, ws, changed, l)
    BY <1>2, <1>5, <1>6, <1>7 DEF WriteAt
<1> QED
    BY <1>8 DEF ws, changed

\* The sequential execution of t does to l what its write set ws says, and leaves
\* there what the journal, view, holds (but for the reward).
Effect(t, l, view, ws) ==
    /\ l \notin DOMAIN ws => SequentialState(t + 1)[l] = SequentialState(t)[l]
    /\ l \in DOMAIN ws /\ ws[l].kind = "lazy" =>
           /\ l \in Accounts /\ ws[l].value \in Int
           /\ SequentialState(t + 1)[l] = Credit(SequentialState(t)[l], ws[l].value)
    /\ l \in DOMAIN ws /\ ws[l].kind # "lazy" =>
           SequentialState(t + 1)[l] = ws[l].value
    /\ l \in DOMAIN view /\ l # Beneficiary => SequentialState(t + 1)[l] = view[l]
    /\ l \in DOMAIN view /\ l \in Accounts =>
           SequentialState(t + 1)[l].code = view[l].code

\* Transaction t has run on the values that it meets sequentially.
RanSerially(t, values, view, gas) ==
    /\ gas \in Nat /\ DOMAIN values \subseteq Locs
    /\ RanAll(t, values, view, gas)
    /\ Agrees(t, SequentialState(t), values)

\* The effect of t on location l, given what it wrote there.
LEMMA WriteEffect ==
    ASSUME Regular, NEW t \in Txs, NEW values, NEW view, NEW gas,
           RanSerially(t, values, view, gas), NEW l \in Locs
    PROVE  Effect(t, l, view, WriteSet(t, gas, values, view))
<1> USE DEF RanSerially
<1>0. PICK n, s, c, after, changed, ws :
          /\ n = Len(VmAccesses[t]) /\ s = SequentialState(t)
          /\ c = Completed(t, n, s, view)
          /\ after = SequentialState(t + 1)
          /\ changed = ChangedLocations(values, view)
          /\ ws = WriteSet(t, gas, values, view)
    OBVIOUS
<1>1. /\ n \in Nat /\ n > 0 /\ c = Refund(t, gas, RunFrom(t, s).view)
      /\ after[Beneficiary] = Credit(c[Beneficiary], Tip(t) * gas)
      /\ \A k \in Locs : k # Beneficiary => after[k] = c[k]
    BY <1>0, ExecutedState, SMTT(30)
<1>2. /\ s \in States /\ \A k \in DOMAIN values : s[k] = values[k]
    BY <1>0 DEF Agrees
<1>3. \A k \in Locs : c[k] = IF k \in DOMAIN view THEN view[k]
                             ELSE IF k \in LazyRecipient(t)
                             THEN Credit(s[k], Transactions[t].value) ELSE s[k]
    BY <1>0, <1>1 DEF Completed
<1>4. /\ DOMAIN view \subseteq DOMAIN values
      /\ IsMaybeLazy(t) => DOMAIN view \subseteq {From(t)}
    BY DEF RanAll, Journal
<1>5. \A k \in LazyRecipient(t) : k \in Accounts /\ k \notin DOMAIN view /\ k = To(t)
    <2>1. IsMaybeLazy(t) => To(t) \in Accounts /\ To(t) # From(t)
        BY AccountFacts DEF IsMaybeLazy
    <2> QED
        BY <1>4, <2>1 DEF LazyRecipient
<1>6. /\ \A k \in Accounts : s[k] \in Account
      /\ Transactions[t].value \in Int /\ Tip(t) * gas \in Int
    <2>1. Transactions[t].value \in Nat
        BY PriceTyped
    <2> QED
        BY <1>2, <2>1, TipTyped, SMTT(30) DEF States
<1>7a. RunFrom(t, s).view \in States
    BY <1>2, AccessAt, AfterTyped, SMTT(30) DEF RunFrom
<1>7. \A k \in Accounts : c[k] \in Account
    <2>2. From(t) \in Accounts /\ (GasLimit(t) - gas) * EffectiveGasPrice(t) \in Int
        BY AccountFacts, TipTyped
    <2>3. c \in States
        BY <1>1, <1>7a, <2>2, CreditedTyped DEF Refund
    <2> QED
        BY <2>3 DEF States
<1>8. \A k \in Accounts : k \in Locs /\ k \notin Slots
    BY AccountFacts
<1>9. Reward(t, gas, l) = IF l = Beneficiary THEN Tip(t) * gas ELSE 0
    BY RewardIsTip DEF Reward
<1>10. WriteAt(t, gas, view, ws, changed, l)
    <2>1. WriteAt(t, gas, view, WriteSet(t, gas, values, view),
                  ChangedLocations(values, view), l)
        BY WriteSetAt
    <2> QED
        BY <1>0, <2>1
<1> USE DEF WriteAt
<1>11. changed \subseteq DOMAIN view
    BY <1>0 DEF ChangedLocations
<1>12. l \in DOMAIN view /\ l \notin changed /\ l \notin Slots => view[l] = s[l]
    BY <1>0, <1>2, <1>4 DEF ChangedLocations
<1>13. l \in DOMAIN view /\ l \notin changed /\ l \in Slots => c[l] = s[l]
    <2> SUFFICES ASSUME l \in DOMAIN view, l \notin changed, l \in Slots, view[l] # values[l]
                 PROVE  c[l] = s[l]
        BY <1>2, <1>3, <1>4
    <2>1. PICK a \in DOMAIN view \ Slots : values[a].code /\ ~view[a].code
        BY <1>0 DEF ChangedLocations, SelfDestructed
    <2>2. a \in Accounts /\ a \in Locs /\ values[a] = s[a]
        BY <1>2, <1>4, AccountFacts
    <2>3. PICK final : final = RunFrom(t, s).view
        OBVIOUS
    <2>4. c[a] = view[a]
        BY <1>3, <2>2
    <2>5. /\ final \in States /\ DOMAIN final = Locs /\ From(t) \in Accounts
          /\ (GasLimit(t) - gas) * EffectiveGasPrice(t) \in Int
        BY <1>7a, <2>3, AccountFacts, TipTyped DEF States
    <2>6. c = [final EXCEPT ![From(t)] =
                   Credit(@, (GasLimit(t) - gas) * EffectiveGasPrice(t))]
        BY <1>1, <2>3 DEF Refund
    <2>7. c[l] = final[l]
        BY <1>8, <2>5, <2>6
    <2>8. c[a].code = final[a].code
        <3>1. CASE a = From(t)
            <4>1. c[a] = Credit(final[a], (GasLimit(t) - gas) * EffectiveGasPrice(t))
                BY <2>2, <2>5, <2>6, <3>1
            <4>2. final[a] \in Account
                BY <2>2, <2>5 DEF States
            <4>3. PICK x, y : x = final[a] /\ y = (GasLimit(t) - gas) * EffectiveGasPrice(t)
                OBVIOUS
            <4>4. Credit(x, y).code = x.code
                BY <2>5, <4>2, <4>3, CreditFacts
            <4> QED
                BY <4>1, <4>3, <4>4
        <3>2. CASE a # From(t)
            <4>1. c[a] = final[a]
                BY <2>2, <2>5, <2>6, <3>2
            <4> QED
                BY <4>1
        <3> QED
            BY <3>1, <3>2
    <2>9. final[l] = s[l]
        <3>1. s[a].code /\ ~final[a].code
            BY <2>1, <2>2, <2>4, <2>8
        <3> QED
            BY <1>0, <2>2, <2>3, <3>1 DEF Regular
    <2> QED
        BY <2>7, <2>9
<1>14. l \in Accounts \/ l \in Slots
    BY AccountFacts
<1>15. Beneficiary \in Accounts /\ Beneficiary \notin Slots
    BY AccountFacts
<1> USE DEF Effect
<1>16. l = Beneficiary => Effect(t, l, view, ws)
    <2> SUFFICES ASSUME l = Beneficiary PROVE Effect(t, l, view, ws)
        OBVIOUS
    <2>1. /\ l \in Accounts /\ l \notin Slots /\ l \in DOMAIN ws
          /\ after[l] = Credit(c[l], Tip(t) * gas) /\ Reward(t, gas, l) = Tip(t) * gas
        BY <1>1, <1>9, <1>10, <1>15
    <2>0. after[l].code = c[l].code
        <3>1. PICK x, a : x = c[l] /\ a = Tip(t) * gas
            OBVIOUS
        <3>2. x \in Account /\ a \in Int /\ after[l] = Credit(x, a)
            BY <1>6, <1>7, <2>1, <3>1
        <3>3. Credit(x, a).code = x.code
            BY <3>2, CreditFacts
        <3> QED
            BY <3>1, <3>2, <3>3
    <2>2. CASE l \in changed
        <3>1. ws[l].kind = "basic" /\ ws[l].value = Credit(view[l], Tip(t) * gas) /\ c[l] = view[l]
            BY <1>3, <1>10, <1>11, <2>1, <2>2
        <3>2. "basic" # "lazy"
            OBVIOUS
        <3> QED
            BY <1>0, <2>0, <2>1, <3>1, <3>2
    <2>3. CASE l \notin changed
        <3>1. ws[l].kind = "lazy"
            BY <1>10, <2>3
        <3>3. ws[l].value \in Int /\ after[l] = Credit(s[l], ws[l].value)
            <4>1. CASE l \in LazyRecipient(t)
                <5>1. ws[l].value = Tip(t) * gas + Transactions[t].value
                    BY <1>10, <2>1, <2>3, <4>1
                <5>2. c[l] = Credit(s[l], Transactions[t].value)
                    BY <1>3, <1>5, <4>1
                <5>3. PICK a, b : a = Tip(t) * gas /\ b = Transactions[t].value
                    OBVIOUS
                <5>4. a \in Int /\ b \in Int /\ a + b = b + a /\ a + b \in Int
                    BY <1>6, <5>3, SMTT(30)
                <5>5. Credit(Credit(s[l], b), a) = Credit(s[l], b + a)
                    BY <1>6, <2>1, <5>4, CreditFacts
                <5> QED
                    BY <2>1, <5>1, <5>2, <5>3, <5>4, <5>5
            <4>2. CASE l \notin LazyRecipient(t)
                <5>1. ws[l].value = Tip(t) * gas + 0
                    BY <1>10, <2>1, <2>3, <4>2
                <5>2. c[l] = s[l]
                    BY <1>3, <1>12, <2>1, <2>3, <4>2
                <5>3. Tip(t) * gas + 0 = Tip(t) * gas
                    BY <1>6, SMTT(30)
                <5> QED
                    BY <1>6, <2>1, <5>1, <5>2, <5>3
            <4> QED
                BY <4>1, <4>2
        <3>4. l \in DOMAIN view => c[l] = view[l]
            BY <1>3
        <3> QED
            BY <1>0, <2>0, <2>1, <3>1, <3>3, <3>4
    <2> QED
        BY <2>2, <2>3
<1>17. l # Beneficiary => Effect(t, l, view, ws)
    <2> SUFFICES ASSUME l # Beneficiary PROVE Effect(t, l, view, ws)
        OBVIOUS
    <2>1. after[l] = c[l] /\ Reward(t, gas, l) = 0 /\ (l \in DOMAIN view => c[l] = view[l])
        BY <1>1, <1>3, <1>9
    <2>2. CASE l \in changed
        <3>1. l \in DOMAIN ws /\ ws[l].kind # "lazy" /\ l \in DOMAIN view
            BY <1>10, <1>11, <2>2
        <3>2. ws[l].value = view[l]
            <4>1. CASE l \in Slots
                BY <1>10, <2>2, <4>1
            <4>2. CASE l \notin Slots
                <5>1. view[l] \in Account
                    BY <1>3, <1>7, <1>14, <3>1, <4>2
                <5>2. ws[l].value = Credit(view[l], 0)
                    BY <1>10, <2>1, <2>2, <4>2
                <5> QED
                    BY <5>1, <5>2, CreditFacts
            <4> QED
                BY <4>1, <4>2
        <3> QED
            BY <1>0, <2>1, <3>1, <3>2
    <2>3. CASE l \notin changed /\ l \in LazyRecipient(t)
        <3>1. /\ l \in DOMAIN ws /\ ws[l].kind = "lazy" /\ l \in Accounts /\ l \notin DOMAIN view
              /\ ws[l].value = 0 + Transactions[t].value
            BY <1>5, <1>10, <2>1, <2>3
        <3>2. 0 + Transactions[t].value = Transactions[t].value
            BY <1>6, SMTT(30)
        <3>3. c[l] = Credit(s[l], Transactions[t].value)
            BY <1>3, <2>3, <3>1
        <3> QED
            BY <1>0, <1>6, <2>1, <3>1, <3>2, <3>3
    <2>4. CASE l \notin changed /\ l \notin LazyRecipient(t)
        <3>1. l \notin DOMAIN ws
            BY <1>10, <2>4
        <3>2. c[l] = s[l]
            <4>1. CASE l \notin DOMAIN view
                BY <1>3, <2>4, <4>1
            <4>2. CASE l \in DOMAIN view /\ l \in Slots
                BY <1>13, <2>4, <4>2
            <4>3. CASE l \in DOMAIN view /\ l \notin Slots
                BY <1>3, <1>12, <2>4, <4>3
            <4> QED
                BY <4>1, <4>2, <4>3
        <3> QED
            BY <1>0, <2>1, <3>1, <3>2
    <2> QED
        BY <2>2, <2>3, <2>4
<1> HIDE DEF Effect
<1>18. Effect(t, l, view, ws)
    BY <1>16, <1>17
<1> QED
    BY <1>0, <1>18

-----------------------------------------------------------------------------
(***************************************************************************)
(* What the entries below a transaction add up to.                         *)
(***************************************************************************)

\* Induction over an interval: a set that holds its first element, and the next
\* of each, holds them all.
LEMMA Climb ==
    ASSUME NEW S, NEW a \in Nat, NEW b \in Nat, a \in S,
           \A k \in a .. b : k < b /\ k \in S => k + 1 \in S
    PROVE  \A k \in a .. b : k \in S
<1> DEFINE Bad == {k \in Nat : k \in a .. b /\ k \notin S}
<1>1. ASSUME NEW n \in Bad, \A j \in Bad : n <= j PROVE FALSE
    <2>1. n \in Nat /\ n \in a .. b /\ n \notin S
        OBVIOUS
    <2>2. n # a
        BY <2>1
    <2>3. /\ n - 1 \in a .. b /\ n - 1 \in Nat /\ n - 1 < b /\ ~(n <= n - 1) /\ (n - 1) + 1 = n
        BY <2>1, <2>2, SMTT(30)
    <2>4. n - 1 \in S
        BY <1>1, <2>3
    <2> QED
        BY <2>1, <2>3, <2>4
<1>2. Bad = {}
    BY <1>1, LeastIndex
<1>3. \A k \in a .. b : k \in Nat
    BY SMTT(30)
<1> QED
    BY <1>2, <1>3

\* A total of numbers is a number.  What is not added does not count.
LEMMA TotalFacts ==
    ASSUME NEW amount, \A i \in Txs : amount[i] \in Int,
           NEW b \in 0 .. BlockSize, NEW j \in 0 .. BlockSize,
           \A i \in Txs : i < b \/ i >= j => amount[i] = 0
    PROVE  /\ \A n \in 0 .. BlockSize : Total(amount)[n] \in Int
           /\ Total(amount)[b] = 0
           /\ Total(amount)[BlockSize] = Total(amount)[j]
<1> DEFINE sum == Total(amount)
<1>0. /\ BlockSize \in Nat /\ 0 \in Nat /\ 0 \in Int /\ b \in Nat /\ j \in Nat
      /\ 0 + 0 = 0 /\ BlockSize \in j .. BlockSize /\ b \in 0 .. b
      /\ \A x \in Int : x + 0 = x
      /\ \A x, y \in Int : x + y \in Int
      /\ \A n \in 0 .. BlockSize : n < BlockSize => n \in Txs
      /\ \A n \in 0 .. b : n < b => n \in Txs
      /\ \A n \in j .. BlockSize : n < BlockSize => n \in Txs /\ n >= j
      /\ \A n \in j .. BlockSize : n \in 0 .. BlockSize
    BY BlockSizeAssumption, SMTT(30) DEF Txs
<1>1. sum[0] = 0 /\ \A n \in Txs : sum[n + 1] = sum[n] + amount[n]
    BY TotalEquation
<1> HIDE DEF sum
<1>2. \A n \in 0 .. BlockSize : sum[n] \in Int
    <2> DEFINE S == {n \in Nat : sum[n] \in Int}
    <2>1. 0 \in S
        BY <1>0, <1>1
    <2>2. ASSUME NEW k \in 0 .. BlockSize, k < BlockSize, k \in S PROVE k + 1 \in S
        <3>1. sum[k + 1] = sum[k] + amount[k] /\ amount[k] \in Int
            BY <1>0, <1>1, <2>2
        <3>2. k + 1 \in Nat /\ sum[k] \in Int
            <4>1. sum[k] \in Int
                BY <2>2
            <4> QED
                BY <2>2, <4>1, SMTT(30)
        <3>3. sum[k] + amount[k] \in Int
            BY <1>0, <3>1, <3>2
        <3> QED
            BY <3>1, <3>2, <3>3
    <2> HIDE DEF S
    <2>3. \A n \in 0 .. BlockSize : n \in S
        BY <1>0, <2>1, <2>2, Climb
    <2> QED
        BY <2>3 DEF S
<1>3. sum[b] = 0
    <2> DEFINE S == {n \in Nat : sum[n] = 0}
    <2>1. 0 \in S
        BY <1>0, <1>1
    <2>2. ASSUME NEW k \in 0 .. b, k < b, k \in S PROVE k + 1 \in S
        <3>1. sum[k + 1] = sum[k] + amount[k] /\ amount[k] = 0
            BY <1>0, <1>1, <2>2
        <3>2. k + 1 \in Nat
            BY <2>2, SMTT(30)
        <3> QED
            BY <1>0, <2>2, <3>1, <3>2
    <2> HIDE DEF S
    <2>3. \A n \in 0 .. b : n \in S
        BY <1>0, <2>1, <2>2, Climb
    <2> QED
        BY <1>0, <2>3 DEF S
<1>4. sum[BlockSize] = sum[j]
    <2> DEFINE S == {n \in Nat : sum[n] = sum[j]}
    <2>1. j \in S
        BY <1>0
    <2>2. ASSUME NEW k \in j .. BlockSize, k < BlockSize, k \in S PROVE k + 1 \in S
        <3>1. sum[k + 1] = sum[k] + amount[k] /\ amount[k] = 0 /\ sum[k] \in Int
            BY <1>0, <1>1, <1>2, <2>2
        <3>2. k + 1 \in Nat
            BY <2>2, SMTT(30)
        <3> QED
            BY <1>0, <2>2, <3>1, <3>2
    <2> HIDE DEF S
    <2>3. \A n \in j .. BlockSize : n \in S
        BY <1>0, <2>1, <2>2, Climb
    <2> QED
        BY <1>0, <2>3 DEF S
<1> QED
    BY <1>2, <1>3, <1>4 DEF sum

\* What no transaction in between changes stays as it is.
LEMMA UnchangedRun ==
    ASSUME NEW l, NEW b \in 0 .. BlockSize, NEW j \in b .. BlockSize,
           \A i \in Txs : b <= i /\ i < j =>
               SequentialState(i + 1)[l] = SequentialState(i)[l]
    PROVE  SequentialState(j)[l] = SequentialState(b)[l]
<1> DEFINE S == {n \in Nat : SequentialState(n)[l] = SequentialState(b)[l]}
<1>0. /\ BlockSize \in Nat /\ b \in Nat /\ j \in Nat /\ j \in b .. j
      /\ \A n \in b .. j : n < j => n \in Txs /\ b <= n /\ n + 1 \in Nat
    BY BlockSizeAssumption, SMTT(30) DEF Txs
<1>1. b \in S
    BY <1>0
<1>2. ASSUME NEW k \in b .. j, k < j, k \in S PROVE k + 1 \in S
    BY <1>0, <1>2
<1> HIDE DEF S
<1>3. \A n \in b .. j : n \in S
    BY <1>0, <1>1, <1>2, Climb
<1> QED
    BY <1>0, <1>3 DEF S

\* Lazy additions, and no other entries, from b up to j.
LEMMA LazyRun ==
    ASSUME NEW l \in Accounts, NEW b \in 0 .. BlockSize, NEW j \in b .. BlockSize, NEW lazy,
           \A i \in Txs : i \in lazy => b <= i /\ i < j /\ data[l][i].kind = "lazy",
           \A i \in Txs : b <= i /\ i < j /\ i \notin lazy => data[l][i] = Absent,
           \A i \in Txs : b <= i /\ i < j => EntryEffect(i, l, data[l][i])
    PROVE  SequentialState(j)[l] = Credit(SequentialState(b)[l], LazySum(l, lazy))
<1> DEFINE amount == [i \in Txs |-> IF i \in lazy THEN data[l][i].value ELSE 0]
           sum == Total(amount)
           base == SequentialState(b)[l]
           S == {n \in Nat : SequentialState(n)[l] = Credit(base, sum[n])}
<1>0. /\ BlockSize \in Nat /\ b \in Nat /\ j \in Nat /\ j \in b .. j /\ 0 \in Int
      /\ j \in 0 .. BlockSize
      /\ \A n \in b .. j : n < j => n \in Txs /\ b <= n /\ n + 1 \in Nat
      /\ \A n \in b .. j : n \in 0 .. BlockSize
      /\ \A i \in Txs : i < b \/ i >= j => ~(b <= i /\ i < j)
    BY BlockSizeAssumption, SMTT(30) DEF Txs
<1>1. \A i \in Txs : amount[i] = IF i \in lazy THEN data[l][i].value ELSE 0
    OBVIOUS
<1>2. LazySum(l, lazy) = sum[BlockSize]
    BY DEF LazySum
<1> HIDE DEF amount
<1>3. \A i \in Txs : amount[i] \in Int
    <2> SUFFICES ASSUME NEW i \in Txs PROVE amount[i] \in Int
        OBVIOUS
    <2>1. CASE i \in lazy
        BY <1>1, <2>1 DEF EntryEffect
    <2>2. CASE i \notin lazy
        BY <1>0, <1>1, <2>2
    <2> QED
        BY <2>1, <2>2
<1>4. \A i \in Txs : i < b \/ i >= j => amount[i] = 0
    BY <1>0, <1>1
<1>5. /\ \A n \in 0 .. BlockSize : sum[n] \in Int
      /\ sum[b] = 0 /\ sum[BlockSize] = sum[j]
    BY <1>0, <1>3, <1>4, TotalFacts
<1>6. \A n \in Txs : sum[n + 1] = sum[n] + amount[n]
    BY TotalEquation
<1>7. base \in Account
    <2>1. SequentialState(b) \in States
        BY SequentialTyped
    <2> QED
        BY <2>1 DEF States
<1> HIDE DEF sum, base
<1>8. b \in S
    <2>1. Credit(base, 0) = base
        BY <1>7, CreditFacts
    <2> QED
        BY <1>0, <1>5, <2>1 DEF base
<1>9. ASSUME NEW k \in b .. j, k < j, k \in S PROVE k + 1 \in S
    <2>1. k \in Txs /\ b <= k /\ k + 1 \in Nat /\ sum[k] \in Int /\ amount[k] \in Int
        BY <1>0, <1>3, <1>5, <1>9
    <2>2. SequentialState(k + 1)[l] = Credit(SequentialState(k)[l], amount[k])
        <3>1. EntryEffect(k, l, data[l][k])
            BY <1>9, <2>1
        <3>2. CASE k \in lazy
            BY <1>1, <2>1, <3>1, <3>2 DEF EntryEffect
        <3>3. CASE k \notin lazy
            <4>1. SequentialState(k + 1)[l] = SequentialState(k)[l] /\ amount[k] = 0
                BY <1>1, <1>9, <2>1, <3>1, <3>3 DEF EntryEffect
            <4>2. SequentialState(k)[l] \in Account
                BY <1>7, <1>9, <2>1, CreditTyped
            <4> QED
                BY <4>1, <4>2, CreditFacts
        <3> QED
            BY <3>2, <3>3
    <2>3. SequentialState(k)[l] = Credit(base, sum[k])
        BY <1>9
    <2>4. Credit(Credit(base, sum[k]), amount[k]) = Credit(base, sum[k] + amount[k])
        BY <1>7, <2>1, CreditFacts
    <2> QED
        BY <1>6, <2>1, <2>2, <2>3, <2>4
<1> HIDE DEF S
<1>10. \A n \in b .. j : n \in S
    BY <1>0, <1>8, <1>9, Climb
<1> QED
    BY <1>0, <1>2, <1>5, <1>10 DEF S, base

\* The least of some indexes is one of them, and so is the greatest.
LEMMA Extremes ==
    ASSUME NEW S, S \subseteq Txs, S # {}
    PROVE  /\ Min(S) \in S /\ \A i \in S : Min(S) <= i
           /\ Max(S) \in S /\ \A i \in S : i <= Max(S)
<1>1. \A i \in S : i \in Nat /\ i \in Int /\ BlockSize - i \in Nat
    BY BlockSizeAssumption, SMTT(30) DEF Txs
<1>2. \E m \in S : \A i \in S : m <= i
    BY <1>1, LeastIndex
<1>3. \E m \in S : \A i \in S : i <= m
    <2> DEFINE T == {BlockSize - i : i \in S}
    <2>1. T \subseteq Nat /\ T # {}
        BY <1>1
    <2>2. PICK d \in T : \A e \in T : d <= e
        BY <2>1, LeastIndex
    <2>3. PICK m \in S : d = BlockSize - m
        OBVIOUS
    <2>4. \A i \in S : BlockSize - m <= BlockSize - i
        BY <2>2, <2>3
    <2>5. \A i \in S : i <= m
        BY <1>1, <2>4, BlockSizeAssumption, SMTT(30)
    <2> QED
        BY <2>5
<1>4. Min(S) \in S /\ \A i \in S : Min(S) <= i
    BY <1>2 DEF Min
<1>5. Max(S) \in S /\ \A i \in S : i <= Max(S)
    <2>1. \A x, y \in Int : x <= y <=> y >= x
        BY SMTT(30)
    <2> QED
        BY <1>1, <1>3, <2>1 DEF Max
<1> QED
    BY <1>4, <1>5

\* An entry has the effect of its transaction, and is of a kind for its location.
EntryFits(t, l) ==
    /\ EntryEffect(t, l, data[l][t])
    /\ data[l][t] = Absent \/ data[l][t].kind \in {"estimate", "basic", "lazy", "storage"}
    /\ data[l][t].kind = "lazy" => l \in Accounts
    /\ data[l][t].kind = "storage" => l \in Slots

\* So do all those below j.
FitsBelow(j, l) == \A i \in Txs : i < j => EntryFits(i, l)

\* What is in memory below t adds up to the state that t meets sequentially: from
\* the storage ...
LEMMA FromStorage ==
    ASSUME NEW l \in Locs, NEW j \in 0 .. BlockSize, NEW lazy,
           \A i \in Txs : i \in lazy => i < j /\ data[l][i].kind = "lazy",
           \A i \in Txs : i < j /\ i \notin lazy => data[l][i] = Absent,
           FitsBelow(j, l)
    PROVE  SequentialState(j)[l] = IF l \in Slots THEN ChainState[l]
                                   ELSE Credit(ChainState[l], LazySum(l, lazy))
<1> USE DEF FitsBelow
<1>1. /\ 0 \in 0 .. BlockSize /\ j \in 0 .. BlockSize /\ \A i \in Txs : 0 <= i
    BY BlockSizeAssumption, SMTT(30) DEF Txs
<1>2. SequentialState(0) = ChainState
    <2>1. Sequential[0] = [state |-> ChainState, gas |-> 0]
        BY SequentialEquation
    <2> QED
        BY <2>1, Outcomes DEF SequentialState
<1>3. CASE l \in Slots
    <2>1. l \notin Accounts
        BY <1>3, AccountFacts
    <2>2. \A i \in Txs : i < j => SequentialState(i + 1)[l] = SequentialState(i)[l]
        BY <2>1 DEF EntryFits, EntryEffect
    <2>3. SequentialState(j)[l] = SequentialState(0)[l]
        BY <1>1, <2>2, UnchangedRun
    <2> QED
        BY <1>2, <1>3, <2>3
<1>4. CASE l \notin Slots
    <2>1. l \in Accounts
        BY <1>4, AccountFacts
    <2>2. \A i \in Txs : 0 <= i /\ i < j => EntryEffect(i, l, data[l][i])
        BY DEF EntryFits
    <2>3. SequentialState(j)[l] = Credit(SequentialState(0)[l], LazySum(l, lazy))
        BY <1>1, <2>1, <2>2, LazyRun
    <2> QED
        BY <1>2, <1>4, <2>3
<1> QED
    BY <1>3, <1>4

\* The additions are those above the full value of m.
Above(l, m, j, lazy) ==
    /\ m \in Txs /\ m < j /\ data[l][m].kind \in {"basic", "storage"}
    /\ \A i \in Txs : i \in lazy => m < i /\ i < j /\ data[l][i].kind = "lazy"
    /\ \A i \in Txs : m < i /\ i < j /\ i \notin lazy => data[l][i] = Absent

\* ... or from a full value.
LEMMA FromValue ==
    ASSUME NEW l \in Locs, NEW j \in 0 .. BlockSize, NEW m, NEW lazy, Above(l, m, j, lazy),
           FitsBelow(j, l)
    PROVE  SequentialState(j)[l] = IF l \in Slots THEN data[l][m].value
                                   ELSE Credit(data[l][m].value, LazySum(l, lazy))
<1> USE DEF Above, FitsBelow
<1>1. /\ m + 1 \in 0 .. BlockSize /\ j \in (m + 1) .. BlockSize
      /\ \A i \in Txs : m < i <=> m + 1 <= i
    BY BlockSizeAssumption, SMTT(30) DEF Txs
<1>2. SequentialState(m + 1)[l] = data[l][m].value
    <2>1. EntryEffect(m, l, data[l][m])
        BY DEF EntryFits
    <2> QED
        BY <2>1 DEF EntryEffect
<1>3. CASE l \in Slots
    <2>1. l \notin Accounts
        BY <1>3, AccountFacts
    <2>2. \A i \in Txs : m + 1 <= i /\ i < j => SequentialState(i + 1)[l] = SequentialState(i)[l]
        BY <1>1, <2>1 DEF EntryFits, EntryEffect
    <2>3. SequentialState(j)[l] = SequentialState(m + 1)[l]
        BY <1>1, <2>2, UnchangedRun
    <2> QED
        BY <1>2, <1>3, <2>3
<1>4. CASE l \notin Slots
    <2>1. l \in Accounts
        BY <1>4, AccountFacts
    <2>2. /\ \A i \in Txs : i \in lazy => m + 1 <= i /\ i < j /\ data[l][i].kind = "lazy"
          /\ \A i \in Txs : m + 1 <= i /\ i < j /\ i \notin lazy => data[l][i] = Absent
          /\ \A i \in Txs : m + 1 <= i /\ i < j => EntryEffect(i, l, data[l][i])
        BY <1>1 DEF EntryFits
    <2>3. SequentialState(j)[l] = Credit(SequentialState(m + 1)[l], LazySum(l, lazy))
        BY <1>1, <2>1, <2>2, LazyRun
    <2> QED
        BY <1>2, <1>4, <2>3
<1> QED
    BY <1>3, <1>4

\* A read that is valid was of the value that t meets sequentially.
LEMMA OriginsCorrect ==
    ASSUME NEW t \in Txs, NEW l \in Locs, NEW origins,
           OriginsStillValid(l, t, origins), Summable(l, origins),
           FitsBelow(t, l)
    PROVE  OriginsValue(l, origins) = SequentialState(t)[l]
<1> DEFINE met == {i \in Written(l, t) : origins.storage \/ \E v \in origins.mv : v[1] <= i}
           idx == Indexes(origins)
           lazy == {i \in idx : data[l][i].kind = "lazy"}
<1>1. /\ \A i \in met : IsData(data[l][i])
      /\ {Version(l, i) : i \in met} = origins.mv
    BY DEF OriginsStillValid
<1>2. \A i : Version(l, i)[1] = i
    BY DEF Version
<1>3. idx = met
    <2>1. \A i \in met : i \in idx
        BY <1>1, <1>2 DEF Indexes
    <2>2. \A v \in origins.mv : v[1] \in met
        BY <1>1, <1>2
    <2> HIDE DEF met
    <2> QED
        BY <2>1, <2>2 DEF Indexes
<1>4. /\ \A i \in 0 .. (t - 1) : i \in Txs /\ i < t
      /\ \A i \in Txs : i < t => i \in 0 .. (t - 1)
      /\ t \in 0 .. BlockSize
    BY BlockSizeAssumption, SMTT(30) DEF Txs
<1>5. \A i \in met : i \in Txs /\ i < t /\ data[l][i] # Absent
    BY <1>4 DEF Written
<1>6. CASE origins.storage
    <2>1. \A i \in idx : data[l][i].kind = "lazy"
        BY <1>6 DEF Summable
    <2>2. \A i \in Txs : i < t /\ i \notin lazy => data[l][i] = Absent
        BY <1>3, <1>4, <1>6, <2>1 DEF Written
    <2>3. \A i \in Txs : i \in lazy => i < t /\ data[l][i].kind = "lazy"
        BY <1>3, <1>5
    <2> HIDE DEF lazy
    <2>4. SequentialState(t)[l] = IF l \in Slots THEN ChainState[l]
                                  ELSE Credit(ChainState[l], LazySum(l, lazy))
        BY <1>4, <2>2, <2>3, FromStorage
    <2> QED
        BY <1>6, <2>4 DEF OriginsValue, lazy
<1>7. CASE ~origins.storage
    <2> DEFINE m == Min(idx)
    <2>1. /\ m \in idx /\ \A i \in idx : data[l][i].kind = "lazy" <=> i # m
        BY <1>7 DEF Summable
    <2>2. \A i \in idx : m <= i
        BY <1>3, <1>5, <2>1, Extremes
    <2>3. /\ m \in Txs /\ m < t /\ IsData(data[l][m]) /\ data[l][m].kind # "lazy"
        BY <1>1, <1>3, <1>5, <2>1
    <2>4. data[l][m].kind \in {"basic", "storage"}
        <3>1. Absent.kind = "absent"
            BY DEF Absent
        <3> QED
            BY <2>3, <3>1 DEF FitsBelow, EntryFits, IsData
    <2>5. \A v \in origins.mv : v[1] \in idx
        BY DEF Indexes
    <2>6. \E v \in origins.mv : v[1] = m
        BY <2>1 DEF Indexes
    <2> HIDE DEF m
    <2>7. /\ \A i \in Txs : m < i <=> m <= i /\ i # m
        BY <2>3, SMTT(30) DEF Txs
    <2>8. \A i \in Txs : m < i /\ i < t /\ i \notin lazy => data[l][i] = Absent
        BY <1>3, <1>4, <2>1, <2>6, <2>7 DEF Written
    <2>9. \A i \in Txs : i \in lazy => m < i /\ i < t /\ data[l][i].kind = "lazy"
        BY <1>3, <1>5, <2>1, <2>2, <2>7
    <2> HIDE DEF lazy
    <2>11. Above(l, m, t, lazy)
        BY <2>3, <2>4, <2>8, <2>9 DEF Above
    <2>10. SequentialState(t)[l] = IF l \in Slots THEN data[l][m].value
                                   ELSE Credit(data[l][m].value, LazySum(l, lazy))
        BY <1>4, <2>11, FromValue, SMTT(30)
    <2> QED
        BY <1>7, <2>10 DEF OriginsValue, lazy, m
<1> QED
    BY <1>6, <1>7

\* The evaluation of a lazy balance after t.
LEMMA EvaluatedCorrect ==
    ASSUME Regular, NEW t \in Txs, NEW l \in LazyAddresses, l \in Accounts,
           \A i \in Txs : i <= t => EntryFits(i, l) /\ data[l][i].kind # "estimate"
    PROVE  Evaluated(l, t) = SequentialState(t + 1)[l]
<1> DEFINE full == {i \in 0 .. t : data[l][i].kind = "basic"}
           lazy == {i \in 0 .. t : data[l][i].kind = "lazy" /\ \A j \in full : j < i}
           start == IF full = {} THEN ChainState[l] ELSE data[l][Max(full)].value
<1>0. l \in Locs /\ l \notin Slots
    BY AccountFacts
<1>1. /\ \A i \in 0 .. t : i \in Txs /\ i < t + 1
      /\ \A i \in Txs : i < t + 1 => i \in 0 .. t /\ i <= t
      /\ t + 1 \in 0 .. BlockSize
    BY BlockSizeAssumption, SMTT(30) DEF Txs
<1>2. \A i \in Txs : i < t + 1 =>
          EntryFits(i, l) /\ (data[l][i] = Absent \/ data[l][i].kind \in {"basic", "lazy"})
    BY <1>0, <1>1 DEF EntryFits
<1>8. FitsBelow(t + 1, l)
    BY <1>2 DEF FitsBelow
<1>3. SequentialState(t + 1)[l] = Credit(start, LazySum(l, lazy))
    <2>1. CASE full = {}
        <3>1. \A i \in Txs : i < t + 1 /\ i \notin lazy => data[l][i] = Absent
            BY <1>1, <1>2, <2>1
        <3>2. \A i \in Txs : i \in lazy => i < t + 1 /\ data[l][i].kind = "lazy"
            BY <1>1
        <3> HIDE DEF lazy, full
        <3> QED
            BY <1>0, <1>1, <1>8, <2>1, <3>1, <3>2, FromStorage
    <2>2. CASE full # {}
        <3> DEFINE m == Max(full)
        <3>1. m \in full /\ \A i \in full : i <= m
            BY <1>1, <2>2, Extremes
        <3> HIDE DEF m
        <3>2. m \in Txs /\ m < t + 1 /\ data[l][m].kind = "basic"
            BY <1>1, <3>1
        <3>3. \A i \in Txs : (m < i <=> ~(i <= m)) /\ (i <= m /\ m < i => FALSE)
                             /\ \A j \in Txs : j <= m /\ m < i => j < i
            BY <3>2, SMTT(30) DEF Txs
        <3>4. \A i \in Txs : m < i /\ i < t + 1 /\ i \notin lazy => data[l][i] = Absent
            BY <1>1, <1>2, <3>1, <3>2, <3>3
        <3>5. \A i \in Txs : i \in lazy => m < i /\ i < t + 1 /\ data[l][i].kind = "lazy"
            BY <1>1, <3>1
        <3>6. start = data[l][m].value
            BY <2>2 DEF m
        <3> HIDE DEF lazy, full, start
        <3>7. SequentialState(t + 1)[l] = Credit(data[l][m].value, LazySum(l, lazy))
            <4>1. Above(l, m, t + 1, lazy)
                BY <3>2, <3>4, <3>5 DEF Above
            <4> QED
                BY <1>0, <1>1, <1>8, <4>1, FromValue, SMTT(30)
        <3> QED
            BY <3>6, <3>7
    <2> QED
        BY <2>1, <2>2
<1>4. Evaluated(l, t) = [Credit(start, LazySum(l, lazy)) EXCEPT !.code = ChainState[l].code]
    BY DEF Evaluated
<1> HIDE DEF start, lazy
<1>5. PICK x : x = SequentialState(t + 1)[l]
    OBVIOUS
<1>6. x \in Account /\ x.code = ChainState[l].code
    <2>1. SequentialState(t + 1) \in States
        BY <1>1, SequentialTyped
    <2>2. SequentialState(t + 1)[l].code = IsContract(l)
        BY <1>1 DEF Regular
    <2> QED
        BY <1>5, <2>1, <2>2 DEF States, IsContract
<1>7. [x EXCEPT !.code = ChainState[l].code] = x
    <2>1. x = [k \in DOMAIN x |-> x[k]]
        BY <1>6 DEF Account
    <2> QED
        BY <1>6, <2>1, SMTT(30) DEF Account
<1> QED
    BY <1>3, <1>4, <1>5, <1>7

-----------------------------------------------------------------------------
(***************************************************************************)
(* When the reads are valid, each transaction has done what it does        *)
(* sequentially.                                                           *)
(***************************************************************************)

\* Transaction t has done what it does sequentially.
Serial(t) ==
    LET result == execution_results[t]
    IN  /\ \A l \in Locs :
               /\ EntryFits(t, l) /\ data[l][t].kind # "estimate"
               /\ data[l][t] # Absent => l \in DOMAIN result.state \cup LazyAddresses
        /\ data[Beneficiary][t] # Absent
        /\ CumulativeGas(t + 1) = CumulativeGas(t) + result.gas
        /\ NonceFits(t, SequentialState(t)[From(t)])
        /\ FundsSuffice(t, SequentialState(t)[From(t)])
        /\ DOMAIN result.state \subseteq Locs
        /\ \A l \in DOMAIN result.state :
               /\ l # Beneficiary => result.state[l] = SequentialState(t + 1)[l]
               /\ l \in Accounts => result.state[l].code = SequentialState(t + 1)[l].code

\* A read that is valid is present.
LEMMA ValidIsPresent ==
    ASSUME NEW t, NEW l, NEW origins, OriginsStillValid(l, t, origins)
    PROVE  Present(l, origins)
<1> DEFINE met == {i \in Written(l, t) : origins.storage \/ \E v \in origins.mv : v[1] <= i}
<1>1. /\ \A i \in met : IsData(data[l][i])
      /\ {Version(l, i) : i \in met} = origins.mv
    BY DEF OriginsStillValid
<1>2. \A i : Version(l, i)[1] = i /\ Version(l, i)[2] = data[l][i].inc
    BY DEF Version
<1> HIDE DEF met
<1>3. ASSUME NEW v \in origins.mv
      PROVE  IsData(data[l][v[1]]) /\ data[l][v[1]].inc = v[2]
    <2>1. PICK i \in met : v = Version(l, i)
        BY <1>1
    <2>2. v[1] = i /\ v[2] = data[l][i].inc
        BY <1>2, <2>1
    <2> QED
        BY <1>1, <2>2
<1> QED
    BY <1>3 DEF Present

\* A transaction whose reads are valid has done what it does sequentially, if the
\* lower ones have.
LEMMA OneSerial ==
    ASSUME Regular, NEW t \in Txs, Outcome(t),
           \A l \in DOMAIN last_locations[t].read : ReadValid(l, t),
           \A l \in Locs : FitsBelow(t, l)
    PROVE  Serial(t)
<1> DEFINE read == last_locations[t].read
<1>0. PICK values, gas, view, ws, inc :
          /\ gas = execution_results[t].gas /\ view = execution_results[t].state
          /\ DOMAIN values = DOMAIN read /\ DOMAIN read \subseteq Locs
          /\ \A l \in DOMAIN read : ReadMeans(l, read[l], values[l])
          /\ RanAll(t, values, view, gas) /\ gas \in Nat
          /\ ws = WriteSet(t, gas, values, view)
          /\ InMemory(t, inc, ws)
    BY DEF Outcome
<1> DEFINE s == SequentialState(t)
<1>1. s \in States
    <2>1. t \in 0 .. BlockSize
        BY BlockSizeAssumption, SMTT(30) DEF Txs
    <2> QED
        BY <2>1, SequentialTyped
<1>2. Agrees(t, s, values)
    <2>1. ASSUME NEW l \in DOMAIN values PROVE s[l] = values[l]
        <3>1. OriginsStillValid(l, t, read[l]) /\ l \in Locs /\ l \in DOMAIN read
            BY <1>0, <2>1 DEF ReadValid
        <3>2. Present(l, read[l])
            BY <3>1, ValidIsPresent
        <3>3. Summable(l, read[l]) /\ values[l] = OriginsValue(l, read[l])
            BY <1>0, <3>1, <3>2 DEF ReadMeans
        <3> QED
            BY <3>1, <3>3, OriginsCorrect
    <2>2. IsMaybeLazy(t) => ~s[To(t)].code
        <3>1. t \in 0 .. BlockSize
            BY BlockSizeAssumption, SMTT(30) DEF Txs
        <3>2. IsMaybeLazy(t) => To(t) \in LazyAddresses
            BY DEF LazyAddresses
        <3>3. IsMaybeLazy(t) => s[To(t)].code = IsContract(To(t))
            BY <3>1, <3>2 DEF Regular
        <3> QED
            BY <3>3 DEF IsMaybeLazy
    <2> QED
        BY <1>1, <2>1, <2>2 DEF Agrees
<1>3. /\ DOMAIN view \subseteq DOMAIN values /\ From(t) \in DOMAIN values
      /\ NonceFits(t, values[From(t)]) /\ FundsSuffice(t, values[From(t)])
    <2>1. Len(VmAccesses[t]) > 0
        <3>1. Len(VmAccesses[t]) \in Nat \ {0}
            BY AccessAt
        <3> QED
            BY <3>1, SMTT(30)
    <2> QED
        BY <1>0, <2>1 DEF RanAll, Journal
<1>4. NonceFits(t, s[From(t)]) /\ FundsSuffice(t, s[From(t)])
    BY <1>2, <1>3 DEF Agrees
<1>5. CumulativeGas(t + 1) = CumulativeGas(t) + gas
    BY <1>0, <1>2, ExecutedState, SMTT(30)
<1> HIDE DEF s
<1> DEFINE Fine(l) ==
        /\ EntryFits(t, l) /\ data[l][t].kind # "estimate"
        /\ data[l][t] # Absent => l \in DOMAIN view \cup LazyAddresses
        /\ l = Beneficiary => data[l][t] # Absent
        /\ l \in DOMAIN view =>
               /\ l # Beneficiary => view[l] = SequentialState(t + 1)[l]
               /\ l \in Accounts => view[l].code = SequentialState(t + 1)[l].code
<1> HIDE DEF Fine
<1>6. ASSUME NEW l \in Locs PROVE Fine(l)
    <2>2. Effect(t, l, view, ws)
        <3>1. RanSerially(t, values, view, gas)
            BY <1>0, <1>2 DEF RanSerially, s
        <3>2. Effect(t, l, view, WriteSet(t, gas, values, view))
            BY <3>1, WriteEffect
        <3> QED
            BY <1>0, <3>2
    <2>3. PICK changed : /\ changed \subseteq DOMAIN view
                         /\ WriteAt(t, gas, view, ws, changed, l)
        <3>1. WriteAt(t, gas, view, WriteSet(t, gas, values, view),
                      ChangedLocations(values, view), l)
            BY WriteSetAt
        <3>2. ChangedLocations(values, view) \subseteq DOMAIN view
            BY DEF ChangedLocations
        <3> QED
            BY <1>0, <3>1, <3>2
    <2>4. /\ l \in DOMAIN ws => /\ ws[l].kind \in {"basic", "lazy", "storage"}
                                /\ l \in DOMAIN view \cup LazyRecipient(t) \cup {Beneficiary}
                                /\ ws[l].kind = "storage" => l \in Slots
                                /\ ws[l].kind = "basic" => l \notin Slots
          /\ l = Beneficiary => l \in DOMAIN ws
        BY <2>3 DEF WriteAt
    <2>5. LazyRecipient(t) \cup {Beneficiary} \subseteq LazyAddresses
        BY DEF LazyRecipient, LazyAddresses
    <2>6. PICK e : e = data[l][t]
        OBVIOUS
    <2>7. Absent.kind = "absent" /\ \A k, i, v : Data(k, i, v).kind = k /\ Data(k, i, v).value = v
        BY SMTT(30) DEF Absent, Data
    <2>8. CASE l \in DOMAIN ws
        <3>1. e = Data(ws[l].kind, inc, ws[l].value)
            BY <1>0, <2>6, <2>8 DEF InMemory, HoldsWrite
        <3>2. e.kind = ws[l].kind /\ e.value = ws[l].value
            <4>1. PICK k, v : k = ws[l].kind /\ v = ws[l].value
                OBVIOUS
            <4>2. e = Data(k, inc, v)
                BY <3>1, <4>1
            <4>3. e.kind = k /\ e.value = v
                BY <4>2, SMTT(30) DEF Data
            <4> QED
                BY <4>1, <4>3
        <3>3. e.kind \in {"basic", "lazy", "storage"}
            BY <2>4, <2>8, <3>2
        <3>4. e # Absent /\ e.kind # "estimate"
            BY <2>7, <3>3
        <3>5. EntryEffect(t, l, e)
            <4>1. CASE e.kind = "lazy"
                BY <2>2, <2>8, <3>2, <3>4, <4>1 DEF EntryEffect, Effect
            <4>2. CASE e.kind # "lazy"
                BY <2>2, <2>8, <3>2, <3>4, <4>2 DEF EntryEffect, Effect
            <4> QED
                BY <4>1, <4>2
        <3>6. EntryFits(t, l)
            BY <2>2, <2>4, <2>6, <2>8, <3>2, <3>3, <3>5 DEF EntryFits, Effect
        <3> QED
            BY <2>2, <2>4, <2>5, <2>6, <2>8, <3>4, <3>6 DEF Fine, Effect
    <2>9. CASE l \notin DOMAIN ws
        <3>1. e = Absent
            BY <1>0, <2>6, <2>9 DEF InMemory, HoldsWrite
        <3>2. EntryEffect(t, l, e)
            BY <2>2, <2>7, <2>9, <3>1 DEF EntryEffect, Effect
        <3>3. EntryFits(t, l)
            BY <2>6, <2>7, <3>1, <3>2 DEF EntryFits
        <3> QED
            BY <2>2, <2>4, <2>6, <2>7, <2>9, <3>1, <3>3 DEF Fine, Effect
    <2> QED
        BY <2>8, <2>9
<1>7. DOMAIN view \subseteq Locs
    BY <1>0, <1>3
<1> QED
    BY <1>0, <1>4, <1>5, <1>6, <1>7, AccountFacts DEF Serial, Fine, s

-----------------------------------------------------------------------------
(***************************************************************************)
(* The results of the block.                                               *)
(***************************************************************************)

\* The lazy updates are of accounts.
LEMMA LazyAccounts ==
    LazyAddresses \subseteq Accounts
BY AccountFacts DEF LazyAddresses, IsMaybeLazy

\* The transactions execute one after the other.
LEMMA AllSerial ==
    ASSUME Regular, \A t \in Txs : Outcome(t),
           \A t \in Txs : \A l \in DOMAIN last_locations[t].read : ReadValid(l, t)
    PROVE  \A t \in Txs : Serial(t)
<1> DEFINE Bad == {t \in Txs : ~Serial(t)}
<1>1. ASSUME NEW t \in Bad, \A u \in Bad : t <= u PROVE FALSE
    <2>1. t \in Txs /\ ~Serial(t)
        OBVIOUS
    <2>2. \A i \in Txs : i < t => ~(t <= i)
        BY <2>1, SMTT(30) DEF Txs
    <2>3. \A i \in Txs : i < t => Serial(i)
        BY <1>1, <2>2
    <2>4. \A l \in Locs : FitsBelow(t, l)
        BY <2>3 DEF Serial, FitsBelow
    <2> QED
        BY <2>1, <2>4, OneSerial
<1>2. Bad \subseteq Nat
    BY BlockSizeAssumption, SMTT(30) DEF Txs
<1>3. Bad = {}
    BY <1>1, <1>2, LeastIndex
<1> QED
    BY <1>3

\* The gas adds up.
LEMMA GasSerial ==
    ASSUME \A t \in Txs : Serial(t), NEW t \in Txs
    PROVE  FinalGas(t) = CumulativeGas(t + 1)
<1> DEFINE gas == [u \in Txs |-> execution_results[u].gas]
           sum == Total(gas)
           S == {n \in Nat : sum[n] = CumulativeGas(n)}
<1>1. /\ sum[0] = 0 /\ \A n \in Txs : sum[n + 1] = sum[n] + gas[n]
      /\ \A n \in Txs : gas[n] = execution_results[n].gas
    BY TotalEquation
<1>2. FinalGas(t) = sum[t + 1]
    BY DEF FinalGas
<1> HIDE DEF sum, gas
<1>3. /\ t + 1 \in Nat /\ 0 \in Nat /\ t + 1 \in 0 .. (t + 1)
      /\ \A k \in 0 .. (t + 1) : k < t + 1 => k \in Txs /\ k + 1 \in Nat
    BY BlockSizeAssumption, SMTT(30) DEF Txs
<1>4. 0 \in S
    <2>1. Sequential[0] = [state |-> ChainState, gas |-> 0]
        BY SequentialEquation
    <2>2. CumulativeGas(0) = 0
        BY <2>1, Outcomes DEF CumulativeGas
    <2> QED
        BY <1>1, <1>3, <2>2
<1>5. ASSUME NEW k \in 0 .. (t + 1), k < t + 1, k \in S PROVE k + 1 \in S
    <2>1. k \in Txs /\ k + 1 \in Nat
        BY <1>3, <1>5
    <2>2. CumulativeGas(k + 1) = CumulativeGas(k) + execution_results[k].gas
        BY <2>1 DEF Serial
    <2> QED
        BY <1>1, <1>5, <2>1, <2>2
<1> HIDE DEF S
<1>6. \A k \in 0 .. (t + 1) : k \in S
    BY <1>3, <1>4, <1>5, Climb
<1> QED
    BY <1>2, <1>3, <1>6 DEF S

\* What a result reports is the state after the transaction, and what it does not
\* report has not changed.
LEMMA ResultSerial ==
    ASSUME Regular, \A t \in Txs : Serial(t), NEW t \in Txs, NEW l \in Locs
    PROVE  IF l \in DOMAIN FinalResult(t)
           THEN FinalResult(t)[l] = Reported(l, SequentialState(t + 1)[l])
           ELSE SequentialState(t + 1)[l] = SequentialState(t)[l]
<1> DEFINE evaluated == {k \in LazyAddresses : data[k][t] # Absent}
           explicit == execution_results[t].state
           after == SequentialState(t + 1)
<1>1. DOMAIN FinalResult(t) = evaluated \cup DOMAIN explicit
    BY DEF FinalResult
<1>2. \A i \in Txs : i <= t => EntryFits(i, l) /\ data[l][i].kind # "estimate"
    BY DEF Serial
<1>3. CASE l \notin evaluated \cup DOMAIN explicit
    <2>1. data[l][t] = Absent
        BY <1>3 DEF Serial
    <2>2. EntryEffect(t, l, data[l][t])
        BY DEF Serial, EntryFits
    <2>3. SequentialState(t + 1)[l] = SequentialState(t)[l]
        BY <2>1, <2>2 DEF EntryEffect
    <2> QED
        BY <1>1, <1>3, <2>3
<1>4. CASE l \notin evaluated /\ l \in DOMAIN explicit
    <2>1. FinalResult(t)[l] = Reported(l, explicit[l])
        BY <1>4 DEF FinalResult
    <2>2. l # Beneficiary
        BY <1>4 DEF Serial, LazyAddresses
    <2>3. explicit[l] = after[l]
        BY <1>4, <2>2 DEF Serial
    <2> QED
        BY <1>1, <1>4, <2>1, <2>3
<1>5. CASE l \in evaluated
    <2>1. l \in LazyAddresses /\ l \in Accounts
        BY <1>5, LazyAccounts
    <2>2. Evaluated(l, t) = after[l]
        BY <1>2, <2>1, EvaluatedCorrect
    <2>3. l \in DOMAIN FinalResult(t)
        BY <1>1, <1>5
    <2>4. FinalResult(t)[l] =
              IF IsEmpty(l, after[l]) THEN Removed
              ELSE IF l \in DOMAIN explicit
              THEN [after[l] EXCEPT !.code = explicit[l].code]
              ELSE after[l]
        BY <1>5, <2>2 DEF FinalResult
    <2>5. IsEnabledIn("SPURIOUS_DRAGON")
        BY DEF Regular
    <2>6. CASE IsEmpty(l, after[l])
        BY <2>3, <2>4, <2>5, <2>6 DEF Reported
    <2>7. CASE ~IsEmpty(l, after[l])
        <3>1. ASSUME l \in DOMAIN explicit
              PROVE  [after[l] EXCEPT !.code = explicit[l].code] = after[l]
            <4>1. explicit[l].code = after[l].code
                BY <2>1, <3>1 DEF Serial
            <4>2. t + 1 \in 0 .. BlockSize
                BY BlockSizeAssumption, SMTT(30) DEF Txs
            <4>3. after[l] \in Account
                BY <2>1, <4>2, SequentialTyped DEF States
            <4>4. PICK x, c : x = after[l] /\ c = explicit[l].code
                OBVIOUS
            <4>5. x \in Account /\ x.code = c
                BY <4>1, <4>3, <4>4
            <4>6. [x EXCEPT !.code = c] = x
                <5>1. x = [k \in DOMAIN x |-> x[k]]
                    BY <4>5 DEF Account
                <5> QED
                    BY <4>5, <5>1, SMTT(30) DEF Account
            <4> QED
                BY <4>4, <4>6
        <3>2. FinalResult(t)[l] = after[l]
            BY <2>4, <2>7, <3>1
        <3> QED
            BY <2>3, <2>7, <3>2 DEF Reported
    <2> QED
        BY <2>6, <2>7
<1> QED
    BY <1>3, <1>4, <1>5

\* What the results up to t say of location l.
LEMMA StateSerial ==
    ASSUME Regular, \A t \in Txs : Serial(t), NEW t \in Txs, NEW l \in Locs
    PROVE  StateAfter(l, t) = Reported(l, SequentialState(t + 1)[l])
<1> DEFINE reports == {u \in 0 .. t : l \in DOMAIN FinalResult(u)}
<1>1. /\ t + 1 \in 0 .. BlockSize /\ 0 \in 0 .. BlockSize
      /\ \A i \in 0 .. t : i \in Txs /\ i + 1 \in 0 .. BlockSize /\ t + 1 \in (i + 1) .. BlockSize
      /\ \A i \in Txs : i < t + 1 => i \in 0 .. t
      /\ \A i, j \in Txs : j + 1 <= i => ~(i <= j)
    BY BlockSizeAssumption, SMTT(30) DEF Txs
<1>2. \A i \in Txs : i < t + 1 /\ i \notin reports =>
          SequentialState(i + 1)[l] = SequentialState(i)[l]
    BY <1>1, ResultSerial
<1>3. CASE reports = {}
    <2>1. SequentialState(t + 1)[l] = SequentialState(0)[l]
        BY <1>1, <1>2, <1>3, UnchangedRun
    <2>2. SequentialState(0) = ChainState
        <3>1. Sequential[0] = [state |-> ChainState, gas |-> 0]
            BY SequentialEquation
        <3> QED
            BY <3>1, Outcomes DEF SequentialState
    <2> QED
        BY <1>3, <2>1, <2>2 DEF StateAfter
<1>4. CASE reports # {}
    <2> DEFINE m == Max(reports)
    <2>1. m \in reports /\ \A u \in reports : u <= m
        BY <1>1, <1>4, Extremes
    <2>2. StateAfter(l, t) = FinalResult(m)[l]
        BY <1>4 DEF StateAfter
    <2> HIDE DEF m
    <2>3. m \in Txs /\ l \in DOMAIN FinalResult(m)
        BY <1>1, <2>1
    <2>4. FinalResult(m)[l] = Reported(l, SequentialState(m + 1)[l])
        BY <2>3, ResultSerial
    <2>5. \A i \in Txs : m + 1 <= i /\ i < t + 1 =>
              SequentialState(i + 1)[l] = SequentialState(i)[l]
        BY <1>1, <1>2, <2>1, <2>3
    <2>6. m + 1 \in 0 .. BlockSize /\ t + 1 \in (m + 1) .. BlockSize
        BY <1>1, <2>1
    <2>7. SequentialState(t + 1)[l] = SequentialState(m + 1)[l]
        BY <2>5, <2>6, UnchangedRun
    <2> QED
        BY <2>2, <2>4, <2>7
<1> QED
    BY <1>3, <1>4

-----------------------------------------------------------------------------
(***************************************************************************)
(* What the proofs about the workers rest on.                              *)
(***************************************************************************)

\* Vm executes as Evm does sequentially, access by access (Vm::execute).
THEOREM VmIsSound == VmSound
<1>1. ASSUME NEW t \in Txs
      PROVE  /\ Len(VmAccesses[t]) \in Nat \ {0}
             /\ VmAccesses[t][1] = [op |-> "debit", loc |-> From(t)]
             /\ Progress(t, 0, <<>>, <<>>, 1)
    <2>1. /\ Len(VmAccesses[t]) \in Nat \ {0}
          /\ VmAccesses[t][1] = [op |-> "debit", loc |-> From(t)]
        BY AccessAt
    <2>2. /\ 0 \in 0 .. Len(VmAccesses[t]) /\ 1 \in Nat /\ DOMAIN <<>> \subseteq Locs
        BY <2>1, SMTT(30)
    <2> QED
        BY <2>1, <2>2, RanStart DEF Progress
<1>2. ASSUME NEW t \in Txs, NEW n, NEW values, NEW view, NEW gas,
             Progress(t, n, values, view, gas), n # Len(VmAccesses[t])
      PROVE  /\ n \in Nat /\ n < Len(VmAccesses[t]) /\ n + 1 \in 0 .. Len(VmAccesses[t])
             /\ gas \in Nat /\ \A i : gas + GasOf(i) \in Nat
    <2>1. Len(VmAccesses[t]) \in Nat /\ n \in 0 .. Len(VmAccesses[t]) /\ gas \in Nat
        BY <1>1, <1>2 DEF Progress
    <2>2. \A i : GasOf(i) \in {0, 1}
        BY DEF GasOf
    <2>3. \A i : gas + GasOf(i) \in Nat
        BY <2>1, <2>2, SMTT(30)
    <2> QED
        BY <1>2, <2>1, <2>3, SMTT(30)
<1>3. ASSUME NEW t \in Txs, NEW n, NEW values, NEW view, NEW gas,
             Progress(t, n, values, view, gas), n # Len(VmAccesses[t]),
             Skipped(t, VmAccesses[t][n + 1], view)
      PROVE  Progress(t, n + 1, values, view, gas)
    <2>1. /\ n \in Nat /\ n < Len(VmAccesses[t]) /\ n + 1 \in 0 .. Len(VmAccesses[t])
          /\ gas \in Nat
        BY <1>2, <1>3
    <2>2. /\ DOMAIN values \subseteq Locs /\ Journal(t, n, values, view)
          /\ Ran(t, n, values, view, gas)
        BY <1>3 DEF Progress
    <2>3. Journal(t, n + 1, values, view) /\ Ran(t, n + 1, values, view, gas)
        BY <1>3, <2>1, <2>2, RanSkips
    <2> QED
        BY <2>1, <2>2, <2>3 DEF Progress
<1>4. ASSUME NEW t \in Txs, NEW values, NEW view, NEW gas,
             Progress(t, Len(VmAccesses[t]), values, view, gas)
      PROVE  RanAll(t, values, Refund(t, gas, view), gas)
    <2>1. /\ DOMAIN values \subseteq Locs /\ Journal(t, Len(VmAccesses[t]), values, view)
          /\ Ran(t, Len(VmAccesses[t]), values, view, gas)
        BY <1>4 DEF Progress
    <2> QED
        BY <2>1, RanFinish
<1>5. VmStarts
    BY <1>1 DEF VmStarts
<1>6. VmSkips
    BY <1>3 DEF VmSkips
<1>7. VmSteps
    <2>1. SUFFICES ASSUME NEW t \in Txs, NEW n, NEW i, NEW values, NEW view, NEW gas,
                          NEW known, Progress(t, n, values, view, gas),
                          n # Len(VmAccesses[t]), i = VmAccesses[t][n + 1],
                          ~Skipped(t, i, view), Informed(t, n, i, values, known)
                   PROVE  Progress(t, n + 1, known, Apply(t, i, Loaded(i, view, known)),
                                   gas + GasOf(i))
        BY SMTT(30) DEF VmSteps
    <2>2. /\ n \in Nat /\ n < Len(VmAccesses[t]) /\ n + 1 \in 0 .. Len(VmAccesses[t])
          /\ gas + GasOf(i) \in Nat
        BY <1>2, <2>1
    <2>3. Journal(t, n, values, view) /\ Ran(t, n, values, view, gas)
        BY <2>1 DEF Progress
    <2>4. PICK loaded : loaded = Loaded(i, view, known)
        OBVIOUS
    <2>5. /\ DOMAIN values \subseteq DOMAIN known /\ DOMAIN known \subseteq Locs
          /\ \A l \in DOMAIN values : known[l] = values[l]
          /\ i.loc \in DOMAIN known
          /\ n = 0 => NonceFits(t, known[From(t)]) /\ FundsSuffice(t, known[From(t)])
        BY <2>1 DEF Informed
    <2>6. Journal(t, n + 1, known, Apply(t, i, loaded))
        BY <2>1, <2>2, <2>3, <2>4, <2>5, JournalStep
    <2>7. Ran(t, n + 1, known, Apply(t, i, loaded), gas + GasOf(i))
        BY <2>1, <2>2, <2>3, <2>4, <2>5, RanAccess
    <2> QED
        BY <2>2, <2>4, <2>5, <2>6, <2>7 DEF Progress
<1>8. VmFinishes
    BY <1>4 DEF VmFinishes
<1> QED
    BY <1>5, <1>6, <1>7, <1>8 DEF VmSound

\* When what every transaction has read is what the memory holds, the block is
\* valid sequentially, and the results that execute_revm evaluates at the end are
\* those of the sequential execution.
THEOREM SerialResults ==
    ASSUME Regular, \A t \in Txs : Outcome(t),
           \A t \in Txs : \A l \in DOMAIN last_locations[t].read : ReadValid(l, t)
    PROVE  /\ SequentiallyValid
           /\ \A t \in Txs :
                  /\ \A l \in Locs :
                         StateAfter(l, t) = Reported(l, SequentialState(t + 1)[l])
                  /\ FinalGas(t) = CumulativeGas(t + 1)
<1>1. \A t \in Txs : Serial(t)
    BY AllSerial
<1>2. SequentiallyValid
    BY <1>1 DEF SequentiallyValid, Serial
<1>3. \A t \in Txs : FinalGas(t) = CumulativeGas(t + 1)
    BY <1>1, GasSerial
<1>4. \A t \in Txs, l \in Locs : StateAfter(l, t) = Reported(l, SequentialState(t + 1)[l])
    BY <1>1, StateSerial
<1> QED
    BY <1>2, <1>3, <1>4

-----------------------------------------------------------------------------
(***************************************************************************)
(* Nonces: what the sequential execution rejects for a nonce, it rejects   *)
(* for that of the storage, if the senders are apart.                      *)
(***************************************************************************)

\* The sequential execution debits the sender only, and creates only the account
\* that the transaction is to create.
LEMMA AccessKinds ==
    ASSUME NEW u \in Txs, NEW k \in 1 .. Len(Accesses(u)), NEW i, i = Accesses(u)[k]
    PROVE  /\ i \in Accessible
           /\ i.op = "debit" => i.loc = From(u)
           /\ i.op = "create" => To(u) = NoAddress /\ i.loc = Transactions[u].creates
<1>0. i \in Accessible
    BY AccessesTyped, SMTT(30)
<1>1. CASE k = 1
    <2>1. i = [op |-> "debit", loc |-> From(u)]
        BY <1>1, AccessAt
    <2> QED
        BY <1>0, <2>1, SMTT(30)
<1>2. CASE i = [op |-> "credit", loc |-> To(u)]
    BY <1>0, <1>2, SMTT(30)
<1>3. CASE i = [op |-> "create", loc |-> Transactions[u].creates] /\ To(u) = NoAddress
    BY <1>0, <1>3, SMTT(30)
<1>4. CASE i \in Instructions
    BY <1>0, <1>4, CodeAccess
<1>5. CASE IsMaybeLazy(u) /\ k # 1
    <2>1. /\ Len(VmAccesses[u]) \in Nat /\ Len(Accesses(u)) = Len(VmAccesses[u]) + 1
          /\ Accesses(u)[2] = [op |-> "credit", loc |-> To(u)]
          /\ \A j \in 2 .. Len(VmAccesses[u]) : /\ VmAccesses[u][j] = Accesses(u)[j + 1]
                                                /\ VmAccesses[u][j] \in Instructions
        BY <1>5, AccessAt
    <2>2. k = 2 \/ (k - 1 \in 2 .. Len(VmAccesses[u]) /\ (k - 1) + 1 = k)
        BY <1>5, <2>1, SMTT(30)
    <2> QED
        BY <1>2, <1>4, <2>1, <2>2
<1>6. CASE ~IsMaybeLazy(u) /\ k # 1
    <2>1. /\ VmAccesses[u] = Accesses(u) /\ Prologue(u) \in {1, 2}
          /\ Prologue(u) = 2 /\ To(u) # NoAddress =>
                 VmAccesses[u][2] = [op |-> "credit", loc |-> To(u)]
          /\ Prologue(u) = 2 /\ To(u) = NoAddress =>
                 VmAccesses[u][2] = [op |-> "create", loc |-> Transactions[u].creates]
          /\ \A j \in (Prologue(u) + 1) .. Len(VmAccesses[u]) :
                 VmAccesses[u][j] \in Instructions
        BY <1>6, AccessAt DEF Prologue
    <2>2. (k = 2 /\ Prologue(u) = 2) \/ k \in (Prologue(u) + 1) .. Len(Accesses(u))
        <3>1. PICK p \in {1, 2} : p = Prologue(u)
            BY <2>1
        <3>2. (k = 2 /\ p = 2) \/ k \in (p + 1) .. Len(Accesses(u))
            BY <1>6, AccessesTyped, SMTT(30)
        <3> QED
            BY <3>1, <3>2
    <2> QED
        BY <1>2, <1>3, <1>4, <2>1, <2>2
<1> QED
    BY <1>1, <1>5, <1>6

\* The accesses of another transaction do not debit, create or destroy a sender.
LEMMA AccessApart ==
    ASSUME SendersApart, NEW t \in Txs, NEW u \in Txs, t # u,
           NEW k \in 1 .. Len(Accesses(u)), NEW i, i = Accesses(u)[k]
    PROVE  /\ i \in Accessible
           /\ i.op \in {"debit", "create"} => i.loc # From(t)
           /\ i.op = "destroy_if_zero" => To(u) # From(t)
<1>1. /\ i \in Accessible
      /\ i.op = "debit" => i.loc = From(u)
      /\ i.op = "create" => To(u) = NoAddress /\ i.loc = Transactions[u].creates
    BY AccessKinds
<1>2. /\ From(t) # From(u)
      /\ To(u) = NoAddress => Transactions[u].creates # From(t)
      /\ To(u) = From(t) => i.op # "destroy_if_zero"
    BY DEF SendersApart
<1> QED
    BY <1>1, <1>2

\* So they leave its nonce as it is.
LEMMA ApplyKeepsNonce ==
    ASSUME NEW t \in Txs, NEW u \in Txs, NEW i \in Accessible,
           i.op \in {"debit", "create"} => i.loc # From(t),
           i.op = "destroy_if_zero" => To(u) # From(t),
           NEW view, From(t) \in DOMAIN view, FirstNonce(t, view[From(t)])
    PROVE  FirstNonce(t, Apply(u, i, view)[From(t)])
<1>1. PICK l, x, r : l = From(t) /\ x = view[l] /\ r = view[To(u)]
    OBVIOUS
<1>2. Apply(u, i, view)[l] = ApplyAt(u, i, l, x, r)
    BY <1>1, ApplyPointwise
<1>3. \A n, y : FirstNonce(t, y) => FirstNonce(t, [y EXCEPT !.balance = n])
    BY DEF FirstNonce
<1>4. \A n, y : FirstNonce(t, y) => FirstNonce(t, Credit(y, n))
    BY <1>3 DEF Credit
<1>5. l \notin Slots
    BY <1>1, AccountFacts
<1>6. FirstNonce(t, ApplyAt(u, i, l, x, r))
    <2> HIDE DEF FirstNonce
    <2>0. FirstNonce(t, x)
        BY <1>1
    <2>1. CASE i.op = "debit"
        BY <1>1, <2>0, <2>1 DEF ApplyAt
    <2>2. CASE i.op = "credit"
        BY <1>4, <2>0, <2>2 DEF ApplyAt
    <2>3. CASE i.op = "create"
        BY <1>1, <2>0, <2>3 DEF ApplyAt
    <2>4. CASE i.op = "add" /\ i.loc \in Slots
        <3>1. l # i.loc /\ i.loc \notin Accounts
            BY <1>5, <2>4, AccountFacts
        <3> QED
            BY <2>0, <2>4, <3>1 DEF ApplyAt
    <2>5. CASE i.op = "add" /\ i.loc \in Accounts /\ i.loc \notin Slots
        <3>1. PICK y : y = IF l = To(u) THEN [x EXCEPT !.balance = x.balance - i.amount]
                           ELSE x
            OBVIOUS
        <3>2. FirstNonce(t, y)
            BY <1>3, <2>0, <3>1
        <3>3. ApplyAt(u, i, l, x, r) =
                  IF l = i.loc THEN [y EXCEPT !.balance = y.balance + i.amount] ELSE y
            BY <2>5, <3>1 DEF ApplyAt
        <3> QED
            BY <1>3, <3>2, <3>3
    <2>6. CASE i.op = "destroy_if_zero"
        BY <1>1, <1>4, <2>0, <2>6 DEF ApplyAt
    <2>7. CASE i.op \in {"read", "reread"}
        BY <2>0, <2>7 DEF ApplyAt
    <2> QED
        BY <2>1, <2>2, <2>3, <2>4, <2>5, <2>6, <2>7, AccessTyped
<1> QED
    BY <1>1, <1>2, <1>6

\* The accesses that reach VmDb are among those of the sequential execution.
LEMMA VmAccessed ==
    ASSUME NEW u \in Txs, NEW n \in 1 .. Len(VmAccesses[u])
    PROVE  \E k \in 1 .. Len(Accesses(u)) : Accesses(u)[k] = VmAccesses[u][n]
<1>1. CASE ~IsMaybeLazy(u)
    BY <1>1, AccessAt
<1>2. CASE IsMaybeLazy(u) /\ n = 1
    <2>1. 1 \in 1 .. Len(Accesses(u))
        <3>1. Len(Accesses(u)) \in Nat \ {0}
            BY AccessAt
        <3> QED
            BY <3>1, SMTT(30)
    <2> QED
        BY <1>2, <2>1, AccessAt
<1>3. CASE IsMaybeLazy(u) /\ n # 1
    <2>1. Len(VmAccesses[u]) \in Nat /\ Len(Accesses(u)) = Len(VmAccesses[u]) + 1
        BY <1>3, AccessAt
    <2>2. n \in 2 .. Len(VmAccesses[u]) /\ n + 1 \in 1 .. Len(Accesses(u))
        BY <1>3, <2>1, SMTT(30)
    <2> QED
        BY <1>3, <2>2, AccessAt
<1> QED
    BY <1>1, <1>2, <1>3

\* The workers may rely on it.
LEMMA NoncesAreKept ==
    ASSUME SendersApart
    PROVE  NoncesKept
<1>1. ASSUME NEW u \in Txs, NEW n \in 1 .. Len(VmAccesses[u])
      PROVE  VmAccesses[u][n].op = "debit" => VmAccesses[u][n].loc = From(u)
    <2>1. PICK k, i :
              k \in 1 .. Len(Accesses(u)) /\ i = Accesses(u)[k] /\ i = VmAccesses[u][n]
        BY VmAccessed
    <2>2. i.op = "debit" => i.loc = From(u)
        BY <2>1, AccessKinds
    <2> QED
        BY <2>1, <2>2
<1>2. ASSUME NEW u \in Txs, NEW n \in 1 .. Len(VmAccesses[u]), NEW t \in Txs \ {u},
             NEW view, From(t) \in DOMAIN view, FirstNonce(t, view[From(t)])
      PROVE  FirstNonce(t, Apply(u, VmAccesses[u][n], view)[From(t)])
    <2>1. PICK k, i :
              k \in 1 .. Len(Accesses(u)) /\ i = Accesses(u)[k] /\ i = VmAccesses[u][n]
        BY VmAccessed
    <2>2. /\ i \in Accessible
          /\ i.op \in {"debit", "create"} => i.loc # From(t)
          /\ i.op = "destroy_if_zero" => To(u) # From(t)
        BY <2>1, AccessApart
    <2> QED
        BY <1>2, <2>1, <2>2, ApplyKeepsNonce
<1> QED
    BY <1>1, <1>2 DEF NoncesKept

\* Nor does the whole of another transaction change it,
LEMMA RunKeepsNonce ==
    ASSUME SendersApart, NEW t \in Txs, NEW u \in Txs, t # u,
           NEW s \in States, FirstNonce(t, s[From(t)])
    PROVE  FirstNonce(t, RunFrom(u, s).view[From(t)])
<1> DEFINE Kept(n) == FirstNonce(t, After(u, s)[n].view[From(t)])
           Bad == {n \in Nat : n \in 0 .. Len(Accesses(u)) /\ ~Kept(n)}
<1>1. ASSUME NEW n \in Bad, \A j \in Bad : n <= j PROVE FALSE
    <2>1. n # 0
        <3>1. After(u, s)[0] = [view |-> s, gas |-> 1]
            BY AfterEquation
        <3>2. After(u, s)[0].view = s
            BY <3>1, SMTT(30)
        <3> QED
            BY <3>2
    <2>2. /\ n - 1 \in Nat /\ n - 1 \in 0 .. Len(Accesses(u)) /\ ~(n <= n - 1)
          /\ n \in 1 .. Len(Accesses(u))
        BY <2>1, AccessesTyped, SMTT(30)
    <2>3. Kept(n - 1)
        BY <1>1, <2>2
    <2>4. PICK before, i : before = After(u, s)[n - 1] /\ i = Accesses(u)[n]
        OBVIOUS
    <2>5. From(t) \in DOMAIN before.view
        <3>1. before.view \in States
            BY <2>2, <2>4, AfterTyped
        <3>2. DOMAIN before.view = Locs
            BY <3>1 DEF States
        <3> QED
            BY <3>2, AccountFacts
    <2>6. FirstNonce(t, Apply(u, i, before.view)[From(t)])
        <3>1. /\ i \in Accessible
              /\ i.op \in {"debit", "create"} => i.loc # From(t)
              /\ i.op = "destroy_if_zero" => To(u) # From(t)
            BY <2>2, <2>4, AccessApart
        <3> QED
            BY <2>3, <2>4, <2>5, <3>1, ApplyKeepsNonce
    <2>7. \/ After(u, s)[n] = before
          \/ After(u, s)[n].view = Apply(u, i, before.view)
        BY <2>2, <2>4, AfterStep
    <2>8. Kept(n)
        BY <2>3, <2>4, <2>6, <2>7
    <2> HIDE DEF Kept
    <2> QED
        BY <2>8
<1> HIDE DEF Kept
<1>2. Bad = {}
    BY <1>1, LeastIndex
<1>3. Len(Accesses(u)) \in Nat /\ Len(Accesses(u)) \in 0 .. Len(Accesses(u))
    BY AccessesTyped, SMTT(30)
<1>4. Kept(Len(Accesses(u)))
    BY <1>2, <1>3
<1> QED
    BY <1>4 DEF Kept, RunFrom

\* so that a transaction finds its sender with the nonce of the storage.
LEMMA SequentialNonce ==
    ASSUME SendersApart, NEW t \in Txs
    PROVE  FirstNonce(t, SequentialState(t)[From(t)])
<1> DEFINE Kept(n) == FirstNonce(t, SequentialState(n)[From(t)])
           Bad == {n \in Nat : n \in 0 .. t /\ ~Kept(n)}
<1>0. t \in Nat /\ BlockSize \in Nat /\ \A n \in 0 .. t : n \in 0 .. BlockSize
    BY IndexFacts, SMTT(30) DEF Txs
<1>1. ASSUME NEW n \in Bad, \A j \in Bad : n <= j PROVE FALSE
    <2>1. n # 0
        <3>1. SequentialState(0) = ChainState
            BY SequentialEquation, Outcomes DEF SequentialState
        <3>2. ChainState[From(t)] \in Account
            BY AmountsAssumption, AccountFacts
        <3>3. FirstNonce(t, ChainState[From(t)])
            BY <3>2 DEF FirstNonce, Account
        <3> QED
            BY <3>1, <3>3
    <2>2. PICK u : u = n - 1
        OBVIOUS
    <2>3. /\ u \in Nat /\ u \in 0 .. t /\ u \in 0 .. BlockSize /\ ~(n <= u)
          /\ u \in Txs /\ u # t /\ u + 1 = n
        BY <1>0, <2>1, <2>2, IndexFacts, SMTT(30) DEF Txs
    <2>4. Kept(u)
        BY <1>1, <2>3
    <2>5. PICK s, final, paid, tip :
              /\ s = SequentialState(u) /\ final = RunFrom(u, s)
              /\ paid = Refund(u, final.gas, final.view) /\ tip = Tip(u) * final.gas
        OBVIOUS
    <2>6. s \in States /\ FirstNonce(t, s[From(t)])
        BY <2>3, <2>4, <2>5, SequentialTyped
    <2>7. FirstNonce(t, final.view[From(t)])
        BY <2>3, <2>5, <2>6, RunKeepsNonce
    <2>8. final.view \in States
        <3>1. Len(Accesses(u)) \in 0 .. Len(Accesses(u))
            BY <2>3, AccessesTyped, SMTT(30)
        <3> QED
            BY <2>3, <2>5, <2>6, <3>1, AfterTyped DEF RunFrom
    <2>9. From(u) # From(t)
        BY <2>3 DEF SendersApart
    <2>10. paid[From(t)] = final.view[From(t)] /\ DOMAIN paid = DOMAIN final.view
        <3>1. From(t) \in DOMAIN final.view
            BY <2>8, AccountFacts DEF States
        <3> QED
            BY <2>5, <2>9, <3>1 DEF Refund
    <2>11. SequentialState(n) = [paid EXCEPT ![Beneficiary] = Credit(@, tip)]
        <3>1. Sequential[n] = Executed(u, Sequential[u])
            BY <2>3, SequentialEquation
        <3>2. PICK state, gas :
                  /\ state = [paid EXCEPT ![Beneficiary] = Credit(@, tip)]
                  /\ gas = Sequential[u].gas + final.gas
            OBVIOUS
        <3>3. Sequential[n] = [state |-> state, gas |-> gas]
            BY <2>5, <3>1, <3>2 DEF Executed, SequentialState
        <3>4. Sequential[n].state = state
            BY <3>3, SMTT(30)
        <3> QED
            BY <3>2, <3>4 DEF SequentialState
    <2>12. \A y : FirstNonce(t, y) => FirstNonce(t, Credit(y, tip))
        BY DEF FirstNonce, Credit
    <2>13. From(t) \in DOMAIN paid
        BY <2>8, <2>10, AccountFacts DEF States
    <2>14. Kept(n)
        <3>1. PICK y : y = paid[From(t)]
            OBVIOUS
        <3>2. FirstNonce(t, y)
            BY <2>7, <2>10, <3>1
        <3>3. SequentialState(n)[From(t)] \in {y, Credit(y, tip)}
            BY <2>11, <2>13, <3>1
        <3> QED
            BY <2>12, <3>2, <3>3
    <2> HIDE DEF Kept
    <2> QED
        BY <2>14
<1> HIDE DEF Kept
<1>2. Bad = {}
    BY <1>1, LeastIndex
<1>3. t \in 0 .. t
    BY <1>0, SMTT(30)
<1> QED
    BY <1>0, <1>2, <1>3 DEF Kept

\* In a block that is valid sequentially, the storage has the nonces of the
\* transactions, and the funds of the first.
LEMMA FirstChecks ==
    ASSUME SendersApart, SequentiallyValid, NEW t \in Txs
    PROVE  /\ NonceFits(t, ChainState[From(t)])
           /\ t = 0 => FundsSuffice(t, ChainState[From(t)])
<1>1. SequentialState(0) = ChainState
    BY SequentialEquation, Outcomes DEF SequentialState
<1>2. /\ NonceFits(t, SequentialState(t)[From(t)])
      /\ FundsSuffice(t, SequentialState(t)[From(t)])
    BY DEF SequentiallyValid
<1>3. FirstNonce(t, SequentialState(t)[From(t)])
    BY SequentialNonce
<1> QED
    BY <1>1, <1>2, <1>3 DEF FirstNonce, NonceFits

\* The first transaction finds the sender as the storage has it.
LEMMA FirstFunds ==
    ASSUME SendersApart, SequentiallyValid
    PROVE  0 \in Txs /\ FundsSuffice(0, FoundValue(From(0), 0))
<1>1. 0 \in Txs /\ 0 \in 0 .. BlockSize /\ BlockSize \in 0 .. BlockSize /\ \A i : i \notin 0 .. (0 - 1)
    BY BlockSizeAssumption, SMTT(30) DEF Txs
<1>2. PICK l : l = From(0) /\ l \in Accounts /\ l \notin Slots
    BY <1>1, AccountFacts
<1>3. Met(l, 0) = {} /\ ReachesStorage(l, 0)
    BY <1>1 DEF Met, Written, ReachesStorage
<1>4. PICK amount : amount = [i \in Txs |-> IF i \in {} THEN data[l][i].value ELSE 0]
    OBVIOUS
<1>5. \A i \in Txs : amount[i] = 0 /\ amount[i] \in Int
    <2>1. 0 \in Int
        BY SMTT(30)
    <2> QED
        BY <1>4, <2>1
<1>6. Total(amount)[BlockSize] = 0
    BY <1>1, <1>5, TotalFacts
<1>7. LazySum(l, {}) = 0
    BY <1>4, <1>6 DEF LazySum
<1>8. FoundValue(l, 0) = Credit(ChainState[l], 0)
    BY <1>2, <1>3, <1>7 DEF FoundValue
<1>9. ChainState[l] \in Account
    BY <1>2, AmountsAssumption
<1>10. Credit(ChainState[l], 0).balance = ChainState[l].balance
    BY <1>9, SMTT(30) DEF Credit, Account
<1>11. FundsSuffice(0, ChainState[l])
    BY <1>1, <1>2, FirstChecks
<1> QED
    BY <1>1, <1>2, <1>8, <1>10, <1>11 DEF FundsSuffice

=============================================================================
