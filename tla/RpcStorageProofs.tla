-------------------------- MODULE RpcStorageProofs --------------------------
(***************************************************************************)
(* Proofs about RpcStorage, for any threads, requests and chain: it        *)
(* implements Storage, and the storage rebuilt from its caches answers as  *)
(* the calls were answered.                                                *)
(***************************************************************************)
EXTENDS RpcStorage, TLAPS

USE SMTT(30)

\* What the requests are about.
LEMMA RequestFacts ==
    ASSUME NEW r \in Requests
    PROVE  \/ r.op \in {"basic", "is_contract"} /\ r.key \in Addresses
           \/ r.op = "storage" /\ r.key \in Addresses /\ r.index \in Indexes
           \/ r.op = "block_hash" /\ r.key \in Numbers
BY ChainAssumption

\* An account is no absent account.
LEMMA SomeAccount ==
    ASSUME NEW balance, NEW nonce, NEW code, NEW code_hash
    PROVE  AccountBasic(balance, nonce, code, code_hash) # NoAccount
<1>1. DOMAIN NoAccount = {"none"}
    BY DEF NoAccount
<1>2. "none" \notin DOMAIN AccountBasic(balance, nonce, code, code_hash)
    BY DEF AccountBasic
<1> QED
    BY <1>1, <1>2

\* A hash is no absent hash.
LEMMA SomeHash ==
    ASSUME NEW code
    PROVE  Hash(code) # NoHash /\ \A other : Hash(other) = Hash(code) => other = code
BY DEF Hash, NoHash

\* What is fetched of an account survives the conversions to REVM and back.
LEMMA BasicFacts ==
    ASSUME NEW a \in Addresses
    PROVE  /\ Wrapped(FetchedBasic(a)) = FetchedBasic(a)
           /\ FetchedBasic(a) # NoAccount =>
                  /\ BasicOf(InfoOf(FetchedBasic(a))) = FetchedBasic(a)
                  /\ FetchedBasic(a).code = ChainAccounts[a].code
                  /\ ChainAccounts[a].code # NoCode <=>
                         FetchedBasic(a).code_hash = Hash(ChainAccounts[a].code)
                  /\ FetchedBasic(a).code = NoCode =>
                         FetchedBasic(a).code_hash = NoHash
<1> DEFINE account == ChainAccounts[a]
           hash == IF account.code = NoCode THEN NoHash ELSE Hash(account.code)
           basic == AccountBasic(account.balance, account.nonce, account.code, hash)
<1>1. FetchedBasic(a) = NoAccount \/ FetchedBasic(a) = basic
    BY DEF FetchedBasic
<1>2. basic.balance = account.balance /\ basic.nonce = account.nonce
      /\ basic.code = account.code /\ basic.code_hash = hash
    BY DEF AccountBasic
<1>3. account.code \notin {EmptyCode, Unloaded}
    BY ChainAssumption
<1>4. BasicOf(InfoOf(basic)) = basic
    <2>1. CASE account.code = NoCode
        <3>1. InfoOf(basic).code = EmptyCode /\ InfoOf(basic).balance = account.balance
              /\ InfoOf(basic).nonce = account.nonce
            BY <1>2, <2>1 DEF InfoOf
        <3> QED
            BY <1>2, <2>1, <3>1 DEF BasicOf
    <2>2. CASE account.code # NoCode
        <3>1. hash = Hash(account.code) /\ hash # NoHash
            BY <2>2, SomeHash
        <3>2. InfoOf(basic).code = account.code /\ InfoOf(basic).balance = account.balance
              /\ InfoOf(basic).nonce = account.nonce /\ InfoOf(basic).code_hash = hash
            BY <1>2, <2>2, <3>1 DEF InfoOf
        <3> QED
            BY <1>2, <1>3, <2>2, <3>1, <3>2 DEF BasicOf
    <2> QED
        BY <2>1, <2>2
<1>5. account.code # NoCode <=> hash = Hash(account.code)
    BY SomeHash
<1> QED
    BY <1>1, <1>2, <1>4, <1>5, SomeAccount DEF Wrapped

-----------------------------------------------------------------------------
\* The steps of a call.

\* A step of one thread leaves the calls of the others alone.
LEMMA CallFrame ==
    ASSUME CallInv, NEW c \in Callers, NEW label, NEW r, NEW f,
           pc' = [pc EXCEPT ![c] = label], request' = [request EXCEPT ![c] = r],
           fetched' = [fetched EXCEPT ![c] = f],
           guard' = guard \/ guard = Nobody,
           CallFits(c)'
    PROVE  CallInv'
<1>1. ASSUME NEW v \in Callers, v # c PROVE CallFits(v)'
    <2>1. pc'[v] = pc[v] /\ request'[v] = request[v] /\ fetched'[v] = fetched[v]
        BY <1>1 DEF CallInv
    <2>2. guard = v => guard' = v
        BY ChainAssumption
    <2>3. CallFits(v)
        BY DEF CallInv
    <2>4. Key(v)' = Key(v) /\ Index(v)' = Index(v)
        BY <2>1 DEF Key, Index
    <2> QED
        BY <2>1, <2>2, <2>3, <2>4 DEF CallFits, InBasic, InStorage, InBlockHash
<1>2. r \in Requests \cup {NoRequest}
    BY DEF CallInv, CallFits
<1> QED
    BY <1>1, <1>2 DEF CallInv

\* A call that goes on stays a call of the same request.
LEMMA ContinueStep ==
    ASSUME CallInv, NEW c \in Callers, NEW label, NEW v, Continue(c, label, v)
    PROVE  /\ pc'[c] = label /\ request' = request /\ fetched'[c] = v
           /\ Key(c)' = Key(c) /\ Index(c)' = Index(c)
           /\ answered' = answered /\ UNCHANGED Chain!storageVars
           /\ (guard' = guard \/ guard = Nobody) /\ CallFits(c)' => CallInv'
<1>1. pc' = [pc EXCEPT ![c] = label] /\ fetched' = [fetched EXCEPT ![c] = v]
      /\ request' = request /\ answer' = answer /\ answered' = answered
    BY DEF Continue, Goto
<1>2. request' = [request EXCEPT ![c] = request[c]]
    BY <1>1 DEF CallInv
<1> QED
    BY <1>1, <1>2, CallFrame, ZenonT(60) DEF CallInv, Chain!storageVars, Key, Index

\* What a call may return: what the chain holds, before the conversions that
\* follow.
MayReturn(c, v) ==
    /\ request[c].op \in {"basic", "is_contract"} => v = FetchedBasic(Key(c))
    /\ request[c].op = "storage" => v = ChainAccounts[Key(c)].storage[Index(c)]
    /\ request[c].op = "block_hash" => v = ChainHashes[Key(c)]

\* A return is one that the trait allows.
LEMMA ReturnStep ==
    ASSUME CallInv, NEW c \in Callers, pc[c] # "idle", NEW v, Return(c, v),
           v = Error \/ MayReturn(c, v),
           guard' = guard \/ guard = Nobody
    PROVE  /\ CallInv' /\ Chain!Next
           /\ answered' = IF v = Error THEN answered ELSE answered \cup {request[c]}
<1>1. request[c] \in Requests /\ request[c] # NoRequest
    BY ChainAssumption DEF CallInv, CallFits
<1>2. CallInv'
    <2>1. pc'[c] = "idle" /\ request'[c] = NoRequest
        BY DEF Return, Goto, CallInv
    <2>2. CallFits(c)'
        BY <2>1 DEF CallFits
    <2>3. /\ pc' = [pc EXCEPT ![c] = "idle"]
          /\ request' = [request EXCEPT ![c] = NoRequest]
          /\ fetched' = [fetched EXCEPT ![c] = NoRequest]
        BY DEF Return, Goto
    <2> QED
        BY <2>2, <2>3, CallFrame, ZenonT(60)
<1> DEFINE result ==
               IF v = Error THEN Error
               ELSE CASE request[c].op = "basic"       -> Wrapped(v)
                      [] request[c].op = "is_contract" -> IsContract(Wrapped(v))
                      [] OTHER                         -> v
<1>3. answer' = [answer EXCEPT ![c] = result]
    BY DEF Return
<1>4. result \in {ChainAnswers[request[c]], Error}
    <2> DEFINE r == request[c]
    <2>1. CASE v = Error
        BY <2>1
    <2>2. CASE v # Error /\ r.op \in {"basic", "is_contract"}
        <3>1. v = FetchedBasic(r.key) /\ r.key \in Addresses
            BY <1>1, <2>2, RequestFacts DEF MayReturn, Key
        <3>2. Wrapped(v) = v
            BY <3>1, BasicFacts
        <3>3. CASE r.op = "basic"
            BY <1>1, <2>2, <3>1, <3>2, <3>3 DEF ChainAnswers
        <3>4. CASE r.op = "is_contract"
            BY <1>1, <2>2, <3>1, <3>2, <3>4 DEF ChainAnswers
        <3> QED
            BY <2>2, <3>3, <3>4
    <2>3. CASE v # Error /\ r.op = "storage"
        BY <1>1, <2>3 DEF ChainAnswers, MayReturn, Key, Index
    <2>4. CASE v # Error /\ r.op = "block_hash"
        BY <1>1, <2>4 DEF ChainAnswers, MayReturn, Key
    <2> QED
        BY <1>1, <2>1, <2>2, <2>3, <2>4, RequestFacts
<1>5. Chain!Return(c)
    BY <1>1, <1>3, <1>4, ZenonT(60) DEF Chain!Return, Return
<1>6. Chain!Next
    BY <1>5 DEF Chain!Next
<1> QED
    BY <1>2, <1>6 DEF Return

-----------------------------------------------------------------------------
\* Every step keeps the invariant, and is one of Storage.

\* A step that leaves the caches alone and answers nothing new keeps them.
LEMMA SameCaches ==
    ASSUME CachesExact, AnswersKept, UNCHANGED cacheVars, replaced' = replaced,
           answered' = answered
    PROVE  CachesExact' /\ AnswersKept'
BY DEF CachesExact, AnswersKept, cacheVars

\* What the invariant says after a step, and that the trait allows the step.
Kept == CachesExact' /\ CallInv' /\ AnswersKept' /\ [Chain!Next]_(Chain!storageVars)

\* The provider answers, or fails.
LEMMA FetchStep ==
    ASSUME RpcInv, NEW c \in Callers,
           FetchBasic(c) \/ FetchSlot(c) \/ FetchHash(c)
    PROVE  Kept
<1>1. PICK label, v :
          /\ Fetch(c, label, v) /\ pc[c] # "idle"
          /\ \/ label = "insert_basic" /\ pc[c] = "fetch_basic" /\ v = FetchedBasic(Key(c))
             \/ /\ label = "insert_slot" /\ pc[c] = "fetch_slot"
                /\ v = ChainAccounts[Key(c)].storage[Index(c)]
             \/ label = "insert_hash" /\ pc[c] = "fetch_hash" /\ v = ChainHashes[Key(c)]
    <2>1. CASE FetchBasic(c)
        BY <2>1 DEF FetchBasic
    <2>2. CASE FetchSlot(c)
        BY <2>2 DEF FetchSlot
    <2>3. CASE FetchHash(c)
        BY <2>3 DEF FetchHash
    <2> QED
        BY <2>1, <2>2, <2>3
<1>2. UNCHANGED cacheVars /\ replaced' = replaced /\ guard' = guard
    BY <1>1 DEF Fetch, cacheVars
<1>3. CASE Return(c, Error)
    <2>1. CallInv' /\ Chain!Next /\ answered' = answered
        BY <1>1, <1>2, <1>3, ReturnStep DEF RpcInv
    <2> QED
        BY <1>2, <2>1, SameCaches DEF RpcInv, Kept
<1>4. CASE Continue(c, label, v)
    <2>1. /\ pc'[c] = label /\ request' = request /\ fetched'[c] = v
          /\ Key(c)' = Key(c) /\ Index(c)' = Index(c)
          /\ answered' = answered /\ UNCHANGED Chain!storageVars
          /\ CallFits(c)' => CallInv'
        BY <1>2, <1>4, ContinueStep DEF RpcInv
    <2>2. CallFits(c) /\ request[c] \in Requests
        BY <1>1 DEF RpcInv, CallInv, CallFits
    <2>3. CallFits(c)'
        BY <1>1, <2>1, <2>2 DEF CallFits, InBasic, InStorage, InBlockHash
    <2> QED
        BY <1>2, <2>1, <2>3, SameCaches DEF RpcInv, Kept
<1> QED
    BY <1>1, <1>3, <1>4 DEF Fetch

\* A lookup finds what the chain holds, or goes on to fetch it.
LEMMA LookupStep ==
    ASSUME RpcInv, NEW c \in Callers,
           LookupBasic(c) \/ LookupSlot(c) \/ LookupHash(c)
    PROVE  Kept
<1>1. UNCHANGED cacheVars /\ replaced' = replaced /\ guard' = guard
    BY DEF LookupBasic, LookupSlot, LookupHash, cacheVars
<1>2. CachesExact'
    BY <1>1 DEF RpcInv, CachesExact, cacheVars
<1>3. pc[c] # "idle" /\ request[c] \in Requests /\ CallFits(c)
    BY DEF LookupBasic, LookupSlot, LookupHash, RpcInv, CallInv, CallFits
<1>4. ASSUME NEW label, Continue(c, label, NoRequest),
             \/ pc[c] = "lookup_basic" /\ label = "fetch_basic" /\ guard = Nobody
             \/ pc[c] = "lookup_slot" /\ label = "fetch_slot"
             \/ pc[c] = "lookup_hash" /\ label = "fetch_hash"
      PROVE  Kept
    <2>1. /\ pc'[c] = label /\ request' = request
          /\ answered' = answered /\ UNCHANGED Chain!storageVars
          /\ CallFits(c)' => CallInv'
        BY <1>1, <1>4, ContinueStep DEF RpcInv
    <2>2. guard # c \/ pc[c] # "lookup_basic"
        BY <1>4, ChainAssumption
    <2>3. CallFits(c)'
        BY <1>3, <1>4, <2>1, <2>2 DEF CallFits, InBasic, InStorage, InBlockHash
    <2> QED
        BY <1>1, <2>1, <2>3, SameCaches DEF RpcInv, Kept
<1>5. ASSUME NEW v, Return(c, v), MayReturn(c, v), v # Error,
             request[c].op \in {"basic", "is_contract"} => Cached(c),
             request[c].op = "storage" =>
                 Cached(c) /\ Index(c) \in DOMAIN cache_accounts[Key(c)].storage,
             request[c].op = "block_hash" => Key(c) \in DOMAIN cache_block_hashes
      PROVE  Kept
    <2>1. CallInv' /\ Chain!Next /\ answered' = answered \cup {request[c]}
        BY <1>1, <1>3, <1>5, ReturnStep DEF RpcInv
    <2>2. AnswersKept'
        BY <1>1, <1>3, <1>5, <2>1 DEF RpcInv, AnswersKept, cacheVars, Cached, Key, Index
    <2> QED
        BY <1>2, <2>1, <2>2 DEF Kept
<1>6. CASE LookupBasic(c)
    <2>1. pc[c] = "lookup_basic" /\ guard = Nobody /\ guard # c
        BY <1>6, ChainAssumption DEF LookupBasic
    <2>2. request[c].op \in {"basic", "is_contract"} /\ Key(c) \in Addresses
        BY <1>3, <2>1, RequestFacts DEF CallFits, InBasic, InStorage, InBlockHash, Key
    <2>3. CASE Cached(c)
        <3>1. Return(c, cache_accounts[Key(c)].basic)
            BY <1>6, <2>3 DEF LookupBasic
        <3>2. cache_accounts[Key(c)].basic = FetchedBasic(Key(c))
            BY <2>3 DEF RpcInv, CachesExact, Cached
        <3>3. FetchedBasic(Key(c)) # Error /\ MayReturn(c, FetchedBasic(Key(c)))
            BY <2>2, ErrorAssumption DEF MayReturn
        <3> QED
            BY <1>5, <2>2, <2>3, <3>1, <3>2, <3>3
    <2>4. CASE ~Cached(c)
        BY <1>4, <1>6, <2>1, <2>4 DEF LookupBasic
    <2> QED
        BY <2>3, <2>4
<1>7. CASE LookupSlot(c)
    <2>1. pc[c] = "lookup_slot"
        BY <1>7 DEF LookupSlot
    <2>2. request[c].op = "storage" /\ Key(c) \in Addresses /\ Index(c) \in Indexes
        BY <1>3, <2>1, RequestFacts DEF CallFits, InBasic, InStorage, InBlockHash, Key,
           Index
    <2>3. CASE Cached(c) /\ Index(c) \in DOMAIN cache_accounts[Key(c)].storage
        <3>1. Return(c, cache_accounts[Key(c)].storage[Index(c)])
            BY <1>7, <2>3 DEF LookupSlot
        <3>2. cache_accounts[Key(c)].storage[Index(c)]
                  = ChainAccounts[Key(c)].storage[Index(c)]
            BY <2>3 DEF RpcInv, CachesExact, Cached
        <3>3. ChainAccounts[Key(c)].storage[Index(c)] # Error
              /\ MayReturn(c, ChainAccounts[Key(c)].storage[Index(c)])
            BY <2>2, ErrorAssumption DEF MayReturn
        <3> QED
            BY <1>5, <2>2, <2>3, <3>1, <3>2, <3>3
    <2>4. CASE ~(Cached(c) /\ Index(c) \in DOMAIN cache_accounts[Key(c)].storage)
        BY <1>4, <1>7, <2>1, <2>4 DEF LookupSlot
    <2> QED
        BY <2>3, <2>4
<1>8. CASE LookupHash(c)
    <2>1. pc[c] = "lookup_hash"
        BY <1>8 DEF LookupHash
    <2>2. request[c].op = "block_hash" /\ Key(c) \in Numbers
        BY <1>3, <2>1, RequestFacts DEF CallFits, InBasic, InStorage, InBlockHash, Key
    <2>3. CASE Key(c) \in DOMAIN cache_block_hashes
        <3>1. Return(c, cache_block_hashes[Key(c)])
            BY <1>8, <2>3 DEF LookupHash
        <3>2. cache_block_hashes[Key(c)] = ChainHashes[Key(c)]
            BY <2>3 DEF RpcInv, CachesExact
        <3>3. ChainHashes[Key(c)] # Error /\ MayReturn(c, ChainHashes[Key(c)])
            BY <2>2, ErrorAssumption DEF MayReturn
        <3> QED
            BY <1>5, <2>2, <2>3, <3>1, <3>2, <3>3
    <2>4. CASE Key(c) \notin DOMAIN cache_block_hashes
        BY <1>4, <1>8, <2>1, <2>4 DEF LookupHash
    <2> QED
        BY <2>3, <2>4
<1> QED
    BY <1>6, <1>7, <1>8

\* An account is inserted as it was fetched, over whatever was there.
LEMMA InsertBasicStep ==
    ASSUME RpcInv, NEW c \in Callers, InsertBasic(c)
    PROVE  Kept
<1> DEFINE a == Key(c)
<1>1. /\ pc[c] = "insert_basic" /\ request[c] \in Requests
      /\ request[c].op \in {"basic", "is_contract"} /\ fetched[c] = FetchedBasic(a)
    BY DEF InsertBasic, RpcInv, CallInv, CallFits, InBasic, InStorage, InBlockHash
<1>2. a \in Addresses /\ fetched[c] # Error /\ MayReturn(c, fetched[c])
    BY <1>1, RequestFacts, ErrorAssumption DEF Key, MayReturn
<1>3. Return(c, fetched[c]) /\ guard' = guard
    BY DEF InsertBasic, cacheVars
<1>4. CallInv' /\ Chain!Next /\ answered' = answered \cup {request[c]}
    BY <1>1, <1>2, <1>3, ReturnStep DEF RpcInv
<1>5. CASE fetched[c] = NoAccount
    <2>1. UNCHANGED cacheVars /\ replaced' = replaced
        BY <1>5 DEF InsertBasic
    <2>2. CachesExact'
        BY <2>1 DEF RpcInv, CachesExact, cacheVars
    <2>3. AnswersKept'
        BY <1>1, <1>4, <1>5, <2>1, ZenonT(60) DEF RpcInv, AnswersKept, cacheVars, Key
    <2> QED
        BY <1>4, <2>2, <2>3 DEF Kept
<1>6. CASE fetched[c] # NoAccount
    <2>1. /\ cache_accounts' = Put(cache_accounts, a, EvmAccount(fetched[c]))
          /\ replaced' = IF Cached(c) THEN replaced \cup {a} ELSE replaced
          /\ cache_block_hashes' = cache_block_hashes
        BY <1>6 DEF InsertBasic
    <2>2. /\ DOMAIN cache_accounts' = DOMAIN cache_accounts \cup {a}
          /\ cache_accounts'[a] = EvmAccount(fetched[c])
          /\ \A k \in DOMAIN cache_accounts : k # a =>
                 cache_accounts'[k] = cache_accounts[k]
        BY <2>1 DEF Put
    <2>3. /\ DOMAIN cache_accounts'[a] = {"basic", "storage"}
          /\ cache_accounts'[a].basic = FetchedBasic(a)
          /\ DOMAIN cache_accounts'[a].storage = {}
        BY <1>1, <2>2 DEF EvmAccount
    <2>4. CachesExact'
        BY <1>1, <1>2, <1>6, <2>1, <2>2, <2>3 DEF RpcInv, CachesExact
    <2>5. ASSUME NEW r \in answered', r.op = "storage", r.key \notin replaced'
          PROVE  /\ r.key \in DOMAIN cache_accounts'
                 /\ r.index \in DOMAIN cache_accounts'[r.key].storage
        <3>1. r \in answered
            BY <1>1, <1>4, <2>5
        <3>2. r.key \notin replaced
            BY <2>1, <2>5
        <3>3. /\ r.key \in DOMAIN cache_accounts
              /\ r.index \in DOMAIN cache_accounts[r.key].storage
            BY <2>5, <3>1, <3>2 DEF RpcInv, AnswersKept
        <3>4. r.key # a
            BY <2>1, <2>5, <3>3 DEF Cached
        <3> QED
            BY <2>2, <3>3, <3>4
    <2>6. ASSUME NEW r \in answered'
          PROVE  /\ r \in Requests
                 /\ r.op \in {"basic", "is_contract"} =>
                        r.key \in DOMAIN cache_accounts' \/ FetchedBasic(r.key) = NoAccount
                 /\ r.op = "block_hash" => r.key \in DOMAIN cache_block_hashes'
        <3>1. CASE r \in answered
            BY <2>1, <2>2, <3>1 DEF RpcInv, AnswersKept
        <3>2. CASE r = request[c]
            <4>1. r.key = a /\ r.op # "block_hash"
                BY <1>1, <3>2 DEF Key
            <4> QED
                BY <1>1, <2>2, <3>2, <4>1
        <3> QED
            BY <1>4, <3>1, <3>2
    <2>7. ASSUME NEW k \in DOMAIN cache_accounts', DOMAIN cache_accounts'[k].storage # {}
          PROVE  \E r \in answered' : r.op = "storage" /\ r.key = k
        <3>1. k \in DOMAIN cache_accounts /\ DOMAIN cache_accounts[k].storage # {}
            BY <2>2, <2>3, <2>7
        <3> QED
            BY <1>4, <3>1 DEF RpcInv, AnswersKept
    <2>8. AnswersKept'
        BY <2>5, <2>6, <2>7 DEF AnswersKept
    <2> QED
        BY <1>4, <2>4, <2>8 DEF Kept
<1> QED
    BY <1>5, <1>6

\* A slot is inserted as it was fetched.
LEMMA InsertSlotStep ==
    ASSUME RpcInv, NEW c \in Callers, InsertSlot(c)
    PROVE  Kept
<1> DEFINE a == Key(c)
           i == Index(c)
<1>1. /\ pc[c] = "insert_slot" /\ request[c] \in Requests
      /\ request[c].op = "storage" /\ fetched[c] = ChainAccounts[a].storage[i]
    BY DEF InsertSlot, RpcInv, CallInv, CallFits, InBasic, InStorage, InBlockHash
<1>2. /\ a \in Addresses /\ i \in Indexes /\ fetched[c] # Error
      /\ MayReturn(c, fetched[c])
    BY <1>1, RequestFacts, ErrorAssumption DEF Key, Index, MayReturn
<1>3. /\ Return(c, fetched[c]) /\ guard' = guard /\ replaced' = replaced
      /\ cache_block_hashes' = cache_block_hashes /\ a \in DOMAIN cache_accounts
      /\ cache_accounts' = [cache_accounts EXCEPT ![a].storage = Put(@, i, fetched[c])]
    BY DEF InsertSlot, Cached
<1>4. CallInv' /\ Chain!Next /\ answered' = answered \cup {request[c]}
    BY <1>1, <1>2, <1>3, ReturnStep DEF RpcInv
<1>5. DOMAIN cache_accounts[a] = {"basic", "storage"}
    BY <1>3 DEF RpcInv, CachesExact
<1>6. /\ DOMAIN cache_accounts' = DOMAIN cache_accounts
      /\ DOMAIN cache_accounts'[a] = {"basic", "storage"}
      /\ cache_accounts'[a].basic = cache_accounts[a].basic
      /\ cache_accounts'[a].storage = Put(cache_accounts[a].storage, i, fetched[c])
      /\ \A k \in DOMAIN cache_accounts : k # a => cache_accounts'[k] = cache_accounts[k]
    BY <1>3, <1>5
<1>7. /\ DOMAIN cache_accounts'[a].storage = DOMAIN cache_accounts[a].storage \cup {i}
      /\ cache_accounts'[a].storage[i] = fetched[c]
      /\ \A k \in DOMAIN cache_accounts[a].storage : k # i =>
             cache_accounts'[a].storage[k] = cache_accounts[a].storage[k]
    BY <1>6 DEF Put
<1>8. CachesExact'
    <2>1. ASSUME NEW k \in DOMAIN cache_accounts'[a].storage
          PROVE  k \in Indexes /\ cache_accounts'[a].storage[k] = ChainAccounts[a].storage[k]
        BY <1>1, <1>2, <1>3, <1>7 DEF RpcInv, CachesExact
    <2> QED
        BY <1>3, <1>6, <2>1 DEF RpcInv, CachesExact
<1>9. AnswersKept'
    <2>1. \A k \in DOMAIN cache_accounts :
              DOMAIN cache_accounts[k].storage \subseteq DOMAIN cache_accounts'[k].storage
        BY <1>6, <1>7
    <2>2. ASSUME NEW r \in answered'
          PROVE  /\ r \in Requests
                 /\ r.op \in {"basic", "is_contract"} =>
                        \/ r.key \in DOMAIN cache_accounts'
                        \/ FetchedBasic(r.key) = NoAccount
                 /\ r.op = "storage" /\ r.key \notin replaced' =>
                        /\ r.key \in DOMAIN cache_accounts'
                        /\ r.index \in DOMAIN cache_accounts'[r.key].storage
                 /\ r.op = "block_hash" => r.key \in DOMAIN cache_block_hashes'
        <3>1. CASE r \in answered
            <4>1. /\ r \in Requests
                  /\ r.op \in {"basic", "is_contract"} =>
                         r.key \in DOMAIN cache_accounts \/ FetchedBasic(r.key) = NoAccount
                  /\ r.op = "storage" /\ r.key \notin replaced =>
                         /\ r.key \in DOMAIN cache_accounts
                         /\ r.index \in DOMAIN cache_accounts[r.key].storage
                  /\ r.op = "block_hash" => r.key \in DOMAIN cache_block_hashes
                BY <3>1, ZenonT(60) DEF RpcInv, AnswersKept
            <4>2. /\ replaced' = replaced /\ cache_block_hashes' = cache_block_hashes
                  /\ DOMAIN cache_accounts \subseteq DOMAIN cache_accounts'
                BY <1>3, <1>6
            <4> QED
                BY <2>1, <4>1, <4>2
        <3>2. CASE r = request[c]
            <4>1. r \in Requests /\ r.op = "storage" /\ r.key = a /\ r.index = i
                BY <1>1, <3>2 DEF Key, Index
            <4>2. a \in DOMAIN cache_accounts' /\ i \in DOMAIN cache_accounts'[a].storage
                BY <1>3, <1>6, <1>7
            <4> HIDE DEF a, i
            <4> QED
                BY <4>1, <4>2
        <3> QED
            BY <1>4, <3>1, <3>2
    <2>3. ASSUME NEW k \in DOMAIN cache_accounts', DOMAIN cache_accounts'[k].storage # {}
          PROVE  \E r \in answered' : r.op = "storage" /\ r.key = k
        <3>1. CASE k = a
            BY <1>1, <1>4, <3>1 DEF Key
        <3>2. CASE k # a
            BY <1>4, <1>6, <2>3, <3>2 DEF RpcInv, AnswersKept
        <3> QED
            BY <3>1, <3>2
    <2> QED
        BY <2>2, <2>3 DEF AnswersKept
<1> QED
    BY <1>4, <1>8, <1>9 DEF Kept

\* A hash is inserted as it was fetched.
LEMMA InsertHashStep ==
    ASSUME RpcInv, NEW c \in Callers, InsertHash(c)
    PROVE  Kept
<1> DEFINE n == Key(c)
<1>1. /\ pc[c] = "insert_hash" /\ request[c] \in Requests
      /\ request[c].op = "block_hash" /\ fetched[c] = ChainHashes[n]
    BY DEF InsertHash, RpcInv, CallInv, CallFits, InBasic, InStorage, InBlockHash
<1>2. n \in Numbers /\ fetched[c] # Error /\ MayReturn(c, fetched[c])
    BY <1>1, RequestFacts, ErrorAssumption DEF Key, MayReturn
<1>3. /\ Return(c, fetched[c]) /\ guard' = guard /\ replaced' = replaced
      /\ cache_accounts' = cache_accounts
      /\ cache_block_hashes' = Put(cache_block_hashes, n, fetched[c])
    BY DEF InsertHash
<1>4. CallInv' /\ Chain!Next /\ answered' = answered \cup {request[c]}
    BY <1>1, <1>2, <1>3, ReturnStep DEF RpcInv
<1>5. /\ DOMAIN cache_block_hashes' = DOMAIN cache_block_hashes \cup {n}
      /\ cache_block_hashes'[n] = fetched[c]
      /\ \A k \in DOMAIN cache_block_hashes : k # n =>
             cache_block_hashes'[k] = cache_block_hashes[k]
    BY <1>3 DEF Put
<1>6. CachesExact'
    BY <1>1, <1>2, <1>3, <1>5 DEF RpcInv, CachesExact
<1>7. AnswersKept'
    BY <1>1, <1>3, <1>4, <1>5 DEF RpcInv, AnswersKept, Key
<1> QED
    BY <1>4, <1>6, <1>7 DEF Kept

\* The Vacant arm of storage enters basic with the guard: no one else has it.
LEMMA CallBasicStep ==
    ASSUME RpcInv, NEW c \in Callers, CallBasic(c)
    PROVE  Kept
<1>1. /\ pc[c] = "insert_slot" /\ guard = Nobody /\ guard' = c
      /\ pc' = [pc EXCEPT ![c] = "lookup_basic"]
      /\ request' = request /\ fetched' = fetched /\ answer' = answer
      /\ answered' = answered /\ replaced' = replaced
      /\ cache_accounts' = cache_accounts /\ cache_block_hashes' = cache_block_hashes
    BY DEF CallBasic, Goto
<1>2. request[c] \in Requests /\ request[c].op = "storage"
    BY <1>1 DEF RpcInv, CallInv, CallFits, InBasic, InStorage, InBlockHash
<1>3. CallFits(c)'
    BY <1>1, <1>2 DEF RpcInv, CallInv, CallFits, InStorage
<1>4. ASSUME NEW v \in Callers, v # c PROVE CallFits(v)'
    <2>1. pc'[v] = pc[v] /\ guard # v /\ CallFits(v)
        BY <1>1, <1>4, ChainAssumption DEF RpcInv, CallInv
    <2> QED
        BY <1>1, <2>1 DEF CallFits, InBasic, InStorage, InBlockHash, Key, Index
<1>5. CallInv'
    BY <1>1, <1>3, <1>4 DEF RpcInv, CallInv
<1>6. CachesExact' /\ AnswersKept'
    BY <1>1 DEF RpcInv, CachesExact, AnswersKept
<1>7. UNCHANGED Chain!storageVars
    BY <1>1 DEF Chain!storageVars
<1> QED
    BY <1>5, <1>6, <1>7 DEF Kept

\* A call starts at the lookup of its method.
LEMMA CallStep ==
    ASSUME RpcInv, NEW c \in Callers, NEW r \in Requests, Call(c, r)
    PROVE  Kept
<1> DEFINE label == CASE r.op \in {"basic", "is_contract"} -> "lookup_basic"
                      [] r.op = "storage"                  -> "lookup_slot"
                      [] r.op = "block_hash"               -> "lookup_hash"
<1>1. /\ pc[c] = "idle" /\ pc' = [pc EXCEPT ![c] = label]
      /\ request' = [request EXCEPT ![c] = r] /\ fetched' = fetched
      /\ answer' = [answer EXCEPT ![c] = NoRequest]
      /\ answered' = answered /\ replaced' = replaced /\ UNCHANGED cacheVars
    BY DEF Call, Goto
<1>2. request[c] = NoRequest
    BY <1>1 DEF RpcInv, CallInv, CallFits, InBasic, InStorage, InBlockHash
<1>3. Chain!Next
    <2>1. Chain!Call(c, r)
        BY <1>1, <1>2 DEF Chain!Call
    <2>2. r \in DOMAIN ChainAnswers
        BY DEF ChainAnswers
    <2> QED
        BY <2>1, <2>2 DEF Chain!Next
<1>4. pc'[c] = label /\ request'[c] = r /\ guard' = guard
    BY <1>1, ZenonT(60) DEF RpcInv, CallInv, cacheVars
<1>5. \/ r.op \in {"basic", "is_contract"} /\ label = "lookup_basic"
      \/ r.op = "storage" /\ label = "lookup_slot"
      \/ r.op = "block_hash" /\ label = "lookup_hash"
    BY RequestFacts
<1>6. CallFits(c)'
    BY <1>4, <1>5 DEF CallFits, InBasic, InStorage, InBlockHash
<1>7. ASSUME NEW v \in Callers, v # c PROVE CallFits(v)'
    <2>1. pc'[v] = pc[v] /\ request'[v] = request[v] /\ fetched'[v] = fetched[v]
          /\ CallFits(v)
        BY <1>1, <1>7 DEF RpcInv, CallInv
    <2> QED
        BY <1>4, <2>1 DEF CallFits, InBasic, InStorage, InBlockHash, Key, Index
<1>8. CallInv'
    BY <1>1, <1>6, <1>7 DEF RpcInv, CallInv
<1> QED
    BY <1>1, <1>3, <1>8, SameCaches DEF RpcInv, Kept

\* Every step keeps the invariant, and is one of Storage.
LEMMA RpcStep ==
    ASSUME RpcInv, [Next]_vars
    PROVE  RpcInv' /\ [Chain!Next]_(Chain!storageVars)
<1>1. CASE UNCHANGED vars
    <2>1. UNCHANGED cacheVars /\ UNCHANGED callVars /\ replaced' = replaced
        BY <1>1 DEF vars
    <2>2. CachesExact' /\ AnswersKept'
        BY <2>1, SameCaches DEF RpcInv, callVars
    <2>3. CallInv'
        BY <2>1 DEF RpcInv, CallInv, CallFits, InBasic, InStorage, InBlockHash, Key,
           Index, cacheVars, callVars
    <2> QED
        BY <2>1, <2>2, <2>3 DEF RpcInv, callVars, Chain!storageVars
<1>2. CASE Next
    <2>1. ASSUME NEW c \in Callers, Step(c) PROVE Kept
        BY <2>1, FetchStep, LookupStep, InsertBasicStep, InsertSlotStep,
           InsertHashStep, CallBasicStep DEF Step
    <2>2. ASSUME NEW c \in Callers, NEW r \in Requests, Call(c, r) PROVE Kept
        BY <2>2, CallStep
    <2> QED
        BY <1>2, <2>1, <2>2 DEF Next, Kept, RpcInv
<1> QED
    BY <1>1, <1>2

\* At first the caches are empty and no thread is in a call.
LEMMA RpcStart == Init => RpcInv /\ Chain!Init
BY DEF Init, RpcInv, CachesExact, CallInv, CallFits, AnswersKept, Chain!Init

-----------------------------------------------------------------------------
\* The storage rebuilt from the caches.

\* An account of the rebuilt storage is the one of the cache.
LEMMA SnapshotFacts ==
    ASSUME CachesExact
    PROVE  /\ DOMAIN Snapshot = DOMAIN cache_accounts
           /\ \A a \in DOMAIN cache_accounts :
                  /\ Snapshot[a].basic = FetchedBasic(a)
                  /\ Snapshot[a].storage = cache_accounts[a].storage
<1>1. DOMAIN Snapshot = DOMAIN cache_accounts
    BY DEF Snapshot
<1>2. ASSUME NEW a \in DOMAIN cache_accounts
      PROVE  /\ Snapshot[a].basic = FetchedBasic(a)
             /\ Snapshot[a].storage = cache_accounts[a].storage
    <2>1. /\ a \in Addresses /\ cache_accounts[a].basic = FetchedBasic(a)
          /\ BasicOf(InfoOf(FetchedBasic(a))) = FetchedBasic(a)
        BY BasicFacts DEF CachesExact
    <2> QED
        BY <2>1 DEF Snapshot, AccountOf, PlainOf
<1> QED
    BY <1>1, <1>2

\* The invariant implies that the rebuilt storage answers alike.
LEMMA SnapshotFollows ==
    ASSUME RpcInv PROVE SnapshotAnswers
<1>1. CachesExact /\ AnswersKept
    BY DEF RpcInv
<1>2. ASSUME NEW r \in answered, r.op = "storage" => r.key \notin replaced
      PROVE  SnapshotAnswer(r) = ChainAnswers[r]
    <2>1. r \in Requests
        BY <1>1 DEF AnswersKept
    <2>2. CASE r.op \in {"basic", "is_contract"}
        <3>1. r.key \in Addresses
            BY <2>1, <2>2, RequestFacts
        <3>2. CASE r.key \in DOMAIN cache_accounts
            <4>1. Snapshot[r.key].basic = FetchedBasic(r.key) /\ r.key \in DOMAIN Snapshot
                  /\ FetchedBasic(r.key) # NoAccount
                BY <1>1, <3>2, SnapshotFacts DEF CachesExact
            <4>2. CASE r.op = "basic"
                BY <2>1, <4>1, <4>2 DEF SnapshotAnswer, ChainAnswers, MemBasic
            <4>3. CASE r.op = "is_contract"
                BY <2>1, <4>1, <4>3 DEF SnapshotAnswer, ChainAnswers, MemIsContract,
                   IsContract
            <4> QED
                BY <2>2, <4>2, <4>3
        <3>3. CASE r.key \notin DOMAIN cache_accounts
            <4>1. FetchedBasic(r.key) = NoAccount /\ r.key \notin DOMAIN Snapshot
                BY <1>1, <2>2, <3>3, SnapshotFacts DEF AnswersKept
            <4>2. CASE r.op = "basic"
                BY <2>1, <4>1, <4>2 DEF SnapshotAnswer, ChainAnswers, MemBasic
            <4>3. CASE r.op = "is_contract"
                BY <2>1, <4>1, <4>3 DEF SnapshotAnswer, ChainAnswers, MemIsContract,
                   IsContract
            <4> QED
                BY <2>2, <4>2, <4>3
        <3> QED
            BY <3>2, <3>3
    <2>3. CASE r.op = "storage"
        <3>1. /\ r.key \in DOMAIN cache_accounts
              /\ r.index \in DOMAIN cache_accounts[r.key].storage
            BY <1>1, <1>2, <2>3 DEF AnswersKept
        <3>2. /\ r.key \in DOMAIN Snapshot /\ r.index \in DOMAIN Snapshot[r.key].storage
              /\ Snapshot[r.key].storage[r.index] = ChainAccounts[r.key].storage[r.index]
            BY <1>1, <3>1, SnapshotFacts DEF CachesExact
        <3> QED
            BY <2>1, <2>3, <3>2 DEF SnapshotAnswer, ChainAnswers, MemStorage
    <2>4. CASE r.op = "block_hash"
        <3>1. r.key \in DOMAIN cache_block_hashes
              /\ cache_block_hashes[r.key] = ChainHashes[r.key]
            BY <1>1, <2>4 DEF AnswersKept, CachesExact
        <3> QED
            BY <2>1, <2>4, <3>1 DEF SnapshotAnswer, ChainAnswers, MemBlockHash
    <2> QED
        BY <2>1, <2>2, <2>3, <2>4, RequestFacts
<1>3. ASSUME NEW a \in DOMAIN cache_accounts, ChainAccounts[a].code # NoCode
      PROVE  MemCodeByHash(Snapshot, Hash(ChainAccounts[a].code)) = ChainAccounts[a].code
    <2> DEFINE code == ChainAccounts[a].code
               found == {k \in DOMAIN Snapshot : Snapshot[k].basic.code_hash = Hash(code)}
               other == CHOOSE k \in found : TRUE
    <2>1. a \in found
        BY <1>1, <1>3, SnapshotFacts, BasicFacts DEF CachesExact
    <2>2. other \in found
        BY <2>1
    <2>3. /\ other \in Addresses /\ FetchedBasic(other) # NoAccount
          /\ Snapshot[other].basic = FetchedBasic(other)
          /\ FetchedBasic(other).code_hash = Hash(code)
        BY <1>1, <2>2, SnapshotFacts DEF CachesExact
    <2>4. FetchedBasic(other).code # NoCode
        BY <2>3, BasicFacts, SomeHash
    <2>5. FetchedBasic(other).code = code
        BY <2>3, <2>4, BasicFacts, SomeHash
    <2> QED
        BY <2>1, <2>3, <2>5 DEF MemCodeByHash
<1>4. ASSUME NEW a \in DOMAIN cache_accounts, MemHasStorage(Snapshot, a)
      PROVE  \E r \in answered : r.op = "storage" /\ r.key = a
    BY <1>1, <1>4, SnapshotFacts DEF MemHasStorage, AnswersKept
<1> QED
    BY <1>2, <1>3, <1>4 DEF SnapshotAnswers

\* The caching storage implements the trait: whatever the threads have cached,
\* written over or are fetching, a call returns what the chain holds for its
\* request, or the error of a fetch.
THEOREM RpcImplementsStorage == Spec => ImplementsStorage
<1>1. Init => RpcInv /\ Chain!Init
    BY RpcStart
<1>2. RpcInv /\ [Next]_vars => RpcInv' /\ [Chain!Next]_(Chain!storageVars)
    BY RpcStep
<1> QED
    BY <1>1, <1>2, PTL DEF Spec, ImplementsStorage, Chain!SafeSpec

\* The storage rebuilt from the caches answers every request that was answered
\* as the chain does, but for slots of an entry that was written over.
THEOREM SnapshotAnswersCorrect == Spec => []SnapshotAnswers
<1>1. Init => RpcInv
    BY RpcStart
<1>2. RpcInv /\ [Next]_vars => RpcInv'
    BY RpcStep
<1>3. RpcInv => SnapshotAnswers
    BY SnapshotFollows
<1> QED
    BY <1>1, <1>2, <1>3, PTL DEF Spec

=============================================================================
