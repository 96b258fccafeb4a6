----------------------------- MODULE RpcStorage ------------------------------
(***************************************************************************)
(* The storage that fetches the chain from a provider and caches what it   *)
(* fetched (src/src/storage/rpc.rs), called by the threads of the          *)
(* executor.  A step is one use of a lock, or one fetch.                   *)
(*                                                                         *)
(* A guard of cache_accounts lives for one step, but for the one of the    *)
(* match of storage: its Vacant arm calls basic, and keeps the guard.      *)
(***************************************************************************)
EXTENDS InMemoryStorage

CONSTANTS
    Callers,
    Addresses, Indexes, Numbers,
    Precompiles,
    ChainAccounts,  \* the accounts at block_id: balance, nonce, code, storage
    ChainHashes,    \* the hashes of the blocks
    Requests,       \* the calls that are made
    NoRequest, Error, Nobody

ASSUME ChainAssumption ==
    /\ Precompiles \subseteq Addresses
    /\ DOMAIN ChainAccounts = Addresses
    /\ DOMAIN ChainHashes = Numbers
    /\ Requests \subseteq [op : {"basic", "is_contract"}, key : Addresses, index : {0}]
           \cup [op : {"storage"}, key : Addresses, index : Indexes]
           \cup [op : {"block_hash"}, key : Numbers, index : {0}]
    /\ NoRequest \notin Requests /\ Nobody \notin Callers
    /\ \A a \in Addresses : ChainAccounts[a].code \notin {EmptyCode, Unloaded}

VARIABLES
    cache_accounts,     \* address -> [basic, storage]
    cache_block_hashes, \* number -> hash
    guard,              \* who keeps the lock of cache_accounts between two steps
    pc, request, fetched, answer,
    answered,           \* history: the requests answered without an error
    replaced            \* history: the accounts whose entry was written over

cacheVars == <<cache_accounts, cache_block_hashes, guard>>
callVars  == <<pc, request, fetched, answer, answered>>
vars      == <<cacheVars, callVars, replaced>>

-----------------------------------------------------------------------------
\* What the chain holds.

\* What basic makes of the three answers of the provider.
FetchedBasic(a) ==
    LET account == ChainAccounts[a]
        basic == AccountBasic(account.balance, account.nonce, account.code,
                              IF account.code = NoCode THEN NoHash
                                                       ELSE Hash(account.code))
    IN  IF a \notin Precompiles /\ IsEmpty(basic) THEN NoAccount ELSE basic

ChainAnswers ==
    [r \in Requests |->
        CASE r.op = "basic"       -> FetchedBasic(r.key)
          [] r.op = "is_contract" -> IsContract(FetchedBasic(r.key))
          [] r.op = "storage"     -> ChainAccounts[r.key].storage[r.index]
          [] r.op = "block_hash"  -> ChainHashes[r.key]]

\* An error is not an answer.
ASSUME ErrorAssumption ==
    /\ \A a \in Addresses : /\ FetchedBasic(a) # Error
                            /\ \A i \in Indexes : ChainAccounts[a].storage[i] # Error
    /\ \A n \in Numbers : ChainHashes[n] # Error

-----------------------------------------------------------------------------

Init ==
    /\ cache_accounts = <<>>
    /\ cache_block_hashes = <<>>
    /\ guard = Nobody
    /\ pc = [c \in Callers |-> "idle"]
    /\ request = [c \in Callers |-> NoRequest]
    /\ fetched = [c \in Callers |-> NoRequest]
    /\ answer = [c \in Callers |-> NoRequest]
    /\ answered = {}
    /\ replaced = {}

Goto(c, label) == pc' = [pc EXCEPT ![c] = label]

\* An insertion into a map.
Put(map, key, value) ==
    [k \in DOMAIN map \cup {key} |-> IF k = key THEN value ELSE map[k]]

\* A call enters its method.  REVM reads a slot of an account it has loaded:
\* some thread has had an answer about it, perhaps that the chain has no such
\* account, when a transaction of the block is creating it.
Call(c, r) ==
    /\ pc[c] = "idle"
    /\ r.op = "storage" =>
           \E q \in answered : q.op \in {"basic", "is_contract"} /\ q.key = r.key
    /\ Goto(c, CASE r.op \in {"basic", "is_contract"} -> "lookup_basic"
                 [] r.op = "storage"                  -> "lookup_slot"
                 [] r.op = "block_hash"               -> "lookup_hash")
    /\ request' = [request EXCEPT ![c] = r]
    /\ answer' = [answer EXCEPT ![c] = NoRequest]
    /\ UNCHANGED <<cacheVars, fetched, answered, replaced>>

\* It returns v, through the wrapper and what the default is_contract does.
Return(c, v) ==
    /\ Goto(c, "idle")
    /\ answer' = [answer EXCEPT ![c] =
           IF v = Error THEN Error
           ELSE CASE request[c].op = "basic"       -> Wrapped(v)
                  [] request[c].op = "is_contract" -> IsContract(Wrapped(v))
                  [] OTHER                         -> v]
    /\ answered' = IF v = Error THEN answered ELSE answered \cup {request[c]}
    /\ request' = [request EXCEPT ![c] = NoRequest]
    /\ fetched' = [fetched EXCEPT ![c] = NoRequest]

\* It goes on without returning.
Continue(c, label, v) ==
    /\ Goto(c, label)
    /\ fetched' = [fetched EXCEPT ![c] = v]
    /\ UNCHANGED <<request, answer, answered>>

\* The provider answers v or fails; only v goes on to be cached.
Fetch(c, label, v) ==
    /\ \/ Return(c, Error)
       \/ Continue(c, label, v)
    /\ UNCHANGED <<cacheVars, replaced>>

Key(c)   == request[c].key
Index(c) == request[c].index

Cached(c) == Key(c) \in DOMAIN cache_accounts

-----------------------------------------------------------------------------
\* basic.

LookupBasic(c) ==
    /\ pc[c] = "lookup_basic"
    /\ guard = Nobody
    /\ IF Cached(c) THEN Return(c, cache_accounts[Key(c)].basic)
                    ELSE Continue(c, "fetch_basic", NoRequest)
    /\ UNCHANGED <<cacheVars, replaced>>

\* Mutant: a fetch that fails is tried again.
FetchBasicAgain(c) ==
    /\ pc[c] = "fetch_basic"
    /\ \/ Continue(c, "lookup_basic", NoRequest)
       \/ Continue(c, "insert_basic", FetchedBasic(Key(c)))
    /\ UNCHANGED <<cacheVars, replaced>>

FetchBasic(c) ==
    /\ pc[c] = "fetch_basic"
    /\ Fetch(c, "insert_basic", FetchedBasic(Key(c)))

\* Mutant: an account that is not there is returned as an empty one.
InsertBasicDefault(c) ==
    /\ pc[c] = "insert_basic"
    /\ fetched[c] = NoAccount
    /\ Return(c, AccountBasic(0, 0, NoCode, NoHash))
    /\ UNCHANGED <<cacheVars, replaced>>

\* An account that is not there is not cached; another one replaces the entry,
\* with a storage that is empty.
InsertBasic(c) ==
    /\ pc[c] = "insert_basic"
    /\ IF fetched[c] = NoAccount
       THEN UNCHANGED <<cacheVars, replaced>>
       ELSE /\ guard = Nobody
            /\ cache_accounts' = Put(cache_accounts, Key(c), EvmAccount(fetched[c]))
            /\ replaced' = IF Cached(c) THEN replaced \cup {Key(c)} ELSE replaced
            /\ UNCHANGED <<cache_block_hashes, guard>>
    /\ Return(c, fetched[c])

-----------------------------------------------------------------------------
\* storage.

LookupSlot(c) ==
    /\ pc[c] = "lookup_slot"
    /\ guard = Nobody
    /\ IF Cached(c) /\ Index(c) \in DOMAIN cache_accounts[Key(c)].storage
       THEN Return(c, cache_accounts[Key(c)].storage[Index(c)])
       ELSE Continue(c, "fetch_slot", NoRequest)
    /\ UNCHANGED <<cacheVars, replaced>>

FetchSlot(c) ==
    /\ pc[c] = "fetch_slot"
    /\ Fetch(c, "insert_slot", ChainAccounts[Key(c)].storage[Index(c)])

\* Mutant: the slot is returned and not cached.
ForgetSlot(c) ==
    /\ pc[c] = "insert_slot"
    /\ guard = Nobody
    /\ Cached(c)
    /\ Return(c, fetched[c])
    /\ UNCHANGED <<cacheVars, replaced>>

\* The Occupied arm.
InsertSlot(c) ==
    /\ pc[c] = "insert_slot"
    /\ guard = Nobody
    /\ Cached(c)
    /\ cache_accounts' = [cache_accounts EXCEPT ![Key(c)].storage =
                              Put(@, Index(c), fetched[c])]
    /\ Return(c, fetched[c])
    /\ UNCHANGED <<cache_block_hashes, guard, replaced>>

\* The Vacant arm: it enters basic with the guard in hand, and basic starts by
\* locking cache_accounts.
CallBasic(c) ==
    /\ pc[c] = "insert_slot"
    /\ guard = Nobody
    /\ ~Cached(c)
    /\ guard' = c
    /\ Goto(c, "lookup_basic")
    /\ UNCHANGED <<cache_accounts, cache_block_hashes, request, fetched, answer,
                   answered, replaced>>

-----------------------------------------------------------------------------
\* block_hash, whose lock is never kept.

LookupHash(c) ==
    /\ pc[c] = "lookup_hash"
    /\ IF Key(c) \in DOMAIN cache_block_hashes
       THEN Return(c, cache_block_hashes[Key(c)])
       ELSE Continue(c, "fetch_hash", NoRequest)
    /\ UNCHANGED <<cacheVars, replaced>>

FetchHash(c) ==
    /\ pc[c] = "fetch_hash"
    /\ Fetch(c, "insert_hash", ChainHashes[Key(c)])

InsertHash(c) ==
    /\ pc[c] = "insert_hash"
    /\ cache_block_hashes' = Put(cache_block_hashes, Key(c), fetched[c])
    /\ Return(c, fetched[c])
    /\ UNCHANGED <<cache_accounts, guard, replaced>>

-----------------------------------------------------------------------------

Step(c) ==
    \/ LookupBasic(c) \/ FetchBasic(c) \/ InsertBasic(c)
    \/ LookupSlot(c) \/ FetchSlot(c) \/ InsertSlot(c) \/ CallBasic(c)
    \/ LookupHash(c) \/ FetchHash(c) \/ InsertHash(c)

Next == \E c \in Callers : Step(c) \/ \E r \in Requests : Call(c, r)

Spec == Init /\ [][Next]_vars

\* A thread in a call goes on: the provider answers or fails, and a lock that
\* is free is given.
FairSpec == Spec /\ \A c \in Callers : WF_vars(Step(c))

-----------------------------------------------------------------------------
\* Properties.

Chain == INSTANCE Storage

\* Whatever the threads have cached, written over or are fetching, a call
\* returns what the chain holds or the error of a fetch, for the request it was
\* made for (the promise of the trait Storage, kept by rpc.rs:71-175 through
\* the conversions of storage.rs:98-127).
ImplementsStorage == Chain!SafeSpec

\* A thread is inside basic, called with the guard of cache_accounts.
Stuck == guard # Nobody

\* Every call returns (the contract of storage.rs:171-198).
EveryCallReturns ==
    \A c \in Callers : (pc[c] # "idle") ~> (pc[c] = "idle")

\* Every call returns, unless some thread takes the Vacant arm of storage: no
\* loop and no failed fetch keeps a thread (rpc.rs:71-175).  The lock that the
\* Vacant arm waits for is the subject of EveryCallReturns.
ReturnsUnlessStuck ==
    \A c \in Callers : (pc[c] # "idle") ~> (pc[c] = "idle" \/ Stuck)

\* The storage rebuilt from the caches, by way of the accounts of REVM that
\* are written to disk (get_cache_accounts, get_cache_block_hashes).
Snapshot ==
    [a \in DOMAIN cache_accounts |-> AccountOf(PlainOf(cache_accounts[a]))]

SnapshotAnswer(r) ==
    CASE r.op = "basic"       -> MemBasic(Snapshot, r.key)
      [] r.op = "is_contract" -> MemIsContract(Snapshot, r.key)
      [] r.op = "storage"     -> MemStorage(Snapshot, r.key, r.index)
      [] r.op = "block_hash"  -> MemBlockHash(cache_block_hashes, r.key)

\* The storage rebuilt from the caches answers as the calls were answered,
\* whichever threads asked first ("Convenient types for persisting then
\* reconstructing block's state", rpc.rs:31-34); a slot is missing only if two
\* threads fetched its account at once and the later one wrote over the entry,
\* which is the case that SlotsKept adds.
\* It finds the code of an account by its hash, and an account has storage only
\* if a slot of it was asked for.
SnapshotAnswers ==
    /\ \A r \in answered :
           (r.op = "storage" => r.key \notin replaced)
               => SnapshotAnswer(r) = ChainAnswers[r]
    /\ \A a \in DOMAIN cache_accounts :
           LET code == ChainAccounts[a].code
           IN  /\ code # NoCode => MemCodeByHash(Snapshot, Hash(code)) = code
               /\ MemHasStorage(Snapshot, a) =>
                      \E r \in answered : r.op = "storage" /\ r.key = a

\* A slot that was answered is in the storage rebuilt from the caches, whatever
\* other threads have inserted since ("persisting then reconstructing block's
\* state as in-memory storage", rpc.rs:31-34).
SlotsKept ==
    \A r \in answered : r.op = "storage" => SnapshotAnswer(r) = ChainAnswers[r]

-----------------------------------------------------------------------------
(***************************************************************************)
(* The inductive invariant behind ImplementsStorage and SnapshotAnswers.   *)
(***************************************************************************)

\* The caches hold what the chain holds, and no account that is not there.
CachesExact ==
    /\ \A a \in DOMAIN cache_accounts :
           /\ a \in Addresses /\ DOMAIN cache_accounts[a] = {"basic", "storage"}
           /\ cache_accounts[a].basic = FetchedBasic(a) /\ FetchedBasic(a) # NoAccount
           /\ \A i \in DOMAIN cache_accounts[a].storage :
                  /\ i \in Indexes
                  /\ cache_accounts[a].storage[i] = ChainAccounts[a].storage[i]
    /\ \A n \in DOMAIN cache_block_hashes :
           n \in Numbers /\ cache_block_hashes[n] = ChainHashes[n]

\* A thread is in the method of its request, or in basic with the guard, and
\* has fetched what that is about.
InBasic(c) ==
    /\ request[c].op \in {"basic", "is_contract"}
    /\ pc[c] \in {"lookup_basic", "fetch_basic", "insert_basic"}
    /\ pc[c] = "insert_basic" => fetched[c] = FetchedBasic(Key(c))
InStorage(c) ==
    /\ request[c].op = "storage"
    /\ \/ pc[c] \in {"lookup_slot", "fetch_slot", "insert_slot"}
       \/ pc[c] = "lookup_basic" /\ guard = c
    /\ pc[c] = "insert_slot" => fetched[c] = ChainAccounts[Key(c)].storage[Index(c)]
InBlockHash(c) ==
    /\ request[c].op = "block_hash"
    /\ pc[c] \in {"lookup_hash", "fetch_hash", "insert_hash"}
    /\ pc[c] = "insert_hash" => fetched[c] = ChainHashes[Key(c)]

CallFits(c) ==
    \/ pc[c] = "idle" /\ request[c] = NoRequest
    \/ /\ pc[c] # "idle" /\ request[c] \in Requests
       /\ InBasic(c) \/ InStorage(c) \/ InBlockHash(c)

CallInv ==
    /\ DOMAIN pc = Callers /\ DOMAIN fetched = Callers
    /\ request \in [Callers -> Requests \cup {NoRequest}]
    /\ \A c \in Callers : CallFits(c)

\* What was answered is cached, unless there was nothing to cache or the entry
\* was written over; and a cached slot was answered.
AnswersKept ==
    /\ \A r \in answered :
           /\ r \in Requests
           /\ r.op \in {"basic", "is_contract"} =>
                  r.key \in DOMAIN cache_accounts \/ FetchedBasic(r.key) = NoAccount
           /\ r.op = "storage" /\ r.key \notin replaced =>
                  /\ r.key \in DOMAIN cache_accounts
                  /\ r.index \in DOMAIN cache_accounts[r.key].storage
           /\ r.op = "block_hash" => r.key \in DOMAIN cache_block_hashes
    /\ \A a \in DOMAIN cache_accounts : DOMAIN cache_accounts[a].storage # {} =>
           \E r \in answered : r.op = "storage" /\ r.key = a

RpcInv == CachesExact /\ CallInv /\ AnswersKept

=============================================================================
